---- MODULE Spec2Model ----
(***************************************************************************)
(* Playback scheduler of the Bad Apple module-federation host              *)
(* (apps/host/src/App.tsx) together with the host-side remote registry and *)
(* resolver (mfRuntime.ts: ensureRemote, loadRemoteModule) and the         *)
(* script-tag container loader (loadRemoteEntry, getContainer,             *)
(* loadRemoteModule, unloadRemoteContainer).                               *)
(*                                                                         *)
(* The browser is single threaded: every handler below runs to its first   *)
(* await (or to its end) as one atomic step.  The steps that interleave    *)
(* are: user events (play, pause, step, scrub), the React commit that runs *)
(* the [playing] effect, animation frames, the settlement of audio.play()  *)
(* and the settlement of the remote module load.                           *)
(*                                                                         *)
(* Time is in integer milliseconds.  Audio position is kept in units of    *)
(* 1/(MsPerSec*fps) second, so that currentTime*fps is audioPos/MsPerSec.  *)
(*                                                                         *)
(* Five specifications: Spec is the scheduler; SpecResolver follows one    *)
(* loadRemoteModule(id) call of mfRuntime.ts at a time, with ensureRemote  *)
(* calls in between; SpecLoader follows one call of the script-tag loader  *)
(* at a time, with script events and unloads in between; SpecClock applies *)
(* the playback clock, computed in IEEE 754 double arithmetic as the       *)
(* program computes it, to inputs of any frame count and rate; SpecServer  *)
(* is the frame server (scripts/serve-frames.mjs).  In the last four the   *)
(* scheduler is at rest.                                                   *)
(***************************************************************************)
EXTENDS Integers, Sequences, FiniteSets, TLC

\* ---------------------------------------------------------------- bounds
\* Number of frames of the animation (runtimeConfig.frameCount).
frameCount == 2
\* performance.now() never exceeds this in the model.
MaxNow == 84
\* At most this many animation-frame callbacks are requested at once.
MaxCallbacks == 2

\* ------------------------------------------------------- program constants
fps == 24
MsPerSec == 1000
initialAudioOffsetSec == 0

\* Time between two animation frames, in ms: the first whole number of
\* milliseconds that is at least one frame period (frameDuration = 1000 / fps).
FrameDeltas == {(MsPerSec + fps - 1) \div fps}

Frames == 0 .. (frameCount - 1)
NoModule == -1
NoEntry == <<>>

VARIABLES
    \* ---- React state of App
    playing,              \* useState(false): latest value given to setPlaying
    renderedPlaying,      \* the value of `playing` in the last committed render
    frameIndex,           \* useState(0)
    loading,              \* useState(false)
    error,                \* useState('')
    \* ---- refs of App
    frameIndexRef,
    lastTickRef,
    perfStartRef,
    perfStartFrameRef,
    loadingRef,
    currentModuleRef,     \* a frame index (its module) or NoModule
    hasMountedRef,
    rafSet,               \* rafRef.current is non-null
    \* ---- browser
    now,                  \* performance.now(); it advances at animation frames
    pending,              \* requested animation-frame callbacks, in request order
    frameQueue,           \* callbacks of the animation frame being run
    hasAudio,             \* audioUrl is set and the <audio> element exists
    audioPaused,          \* a.paused
    audioPos,             \* a.currentTime, in 1/(MsPerSec*fps) s
    playAwait,            \* play() calls suspended at `await a.play()`
    \* ---- mfRuntime / remote modules
    registeredEntryByName,
    inflight,             \* loadRemoteModule promises not yet settled
    unmountless,          \* frames whose module defines no unmount
    \* ---- the stage (DOM)
    stage,                \* whose html is in the mount target
    styleEl,              \* modules whose <style> element is in document.head
    \* ---- observation
    lastDispatched,       \* index of the last load renderFrame started
    trace,                \* what the last step was given and what it called
    \* ---- mfRuntime: the loadRemoteModule(id) call being followed
    resolvePc,            \* "idle", "first", "share", "retry" or "done"
    resolveId,            \* its id argument
    caught,               \* message of the error its catch block caught
    resolveResult,        \* settlement of the promise it returned
    runtimeCalls,         \* its calls into the federation runtime, in order
    lastAttempt,          \* what its last settled loadRemote call gave
    called,               \* the ensureRemote call of the last step, if any
    registerCalls,        \* registerRemotes calls made by the last step
    \* ---- script-tag loader
    containers,           \* scope -> script of the cached LoadEntry, or 0
    scripts,              \* the script elements created, in creation order
    window,               \* scope -> script whose container is bound, or 0
    sharingReady,         \* getSharing() gives init and scopes.default
    loadPc,               \* "idle", "entry", "init", "containerInit", "get", "done"
    loadArgs,             \* url and scope of the call being followed
    loadScript,           \* the script whose promise that call awaits
    loadContainer,        \* the container getContainer returned to it
    loadResult,           \* settlement of the promise it returned
    entryCalls,           \* scope -> loadRemoteEntry calls since its last unload
    initCalls,            \* script -> container.init calls on its container
    \* ---- the playback clock, taken alone
    clockIn,              \* frame count, rate and what getDesiredFrameIndex reads
    clockOut,             \* the index it gave, and the index before that
    \* ---- frame server (serve-frames.mjs)
    dist,                 \* frame directory -> publicPath of its built manifest
    request,              \* path of the request being handled
    response,             \* what the handler answered
    \* ---- frame build pool (build-frames.mjs)
    build                 \* ids left, workers, counters, the builds started

vars == <<playing, renderedPlaying, frameIndex, loading, error, frameIndexRef,
          lastTickRef, perfStartRef, perfStartFrameRef, loadingRef,
          currentModuleRef, hasMountedRef, rafSet, now, pending, frameQueue,
          hasAudio, audioPaused, audioPos, playAwait, registeredEntryByName,
          inflight, unmountless, stage, styleEl, lastDispatched, trace,
          resolvePc, resolveId, caught, resolveResult, runtimeCalls,
          lastAttempt, called, registerCalls, containers, scripts, window,
          sharingReady, loadPc, loadArgs, loadScript, loadContainer,
          loadResult, entryCalls, initCalls, clockIn, clockOut, dist,
          request, response, build>>

reactVars == <<playing, renderedPlaying, frameIndex>>
clockVars == <<lastTickRef, perfStartRef, perfStartFrameRef, now>>
audioVars == <<hasAudio, audioPaused, audioPos, playAwait>>
domVars   == <<currentModuleRef, stage, styleEl, unmountless>>
loadVars  == <<loading, error, loadingRef, registeredEntryByName, inflight,
               lastDispatched>>
rafVars   == <<rafSet, pending, frameQueue>>
resolverVars == <<resolvePc, resolveId, caught, resolveResult, runtimeCalls,
                  lastAttempt, called, registerCalls>>
loaderVars == <<containers, scripts, window, sharingReady, loadPc, loadArgs,
                loadScript, loadContainer, loadResult, entryCalls, initCalls>>
evalVars == <<clockIn, clockOut>>
serverVars == <<dist, request, response>>
buildVars == <<build>>
\* What the scheduler leaves alone.
remoteVars == <<resolverVars, loaderVars, evalVars, serverVars, buildVars>>
\* Everything of App.tsx.
appVars == <<reactVars, clockVars, audioVars, domVars, rafVars, loading,
             error, loadingRef, inflight, lastDispatched, frameIndexRef,
             hasMountedRef, trace>>
\* What the registry and the loaders leave alone.
schedulerVars == <<appVars, evalVars, serverVars, buildVars>>

Ev(op, idx) == [op |-> op, idx |-> idx]

\* ------------------------------------------------------------ pure helpers
Max(a, b) == IF a >= b THEN a ELSE b
Min(a, b) == IF a <= b THEN a ELSE b

\* String(value), value a natural number: its decimal digits.
RECURSIVE String(_)
String(value) ==
    IF value < 10 THEN <<value>> ELSE Append(String(value \div 10), value % 10)

\* s.padStart(targetLength, pad), pad being one character.
padStart(s, targetLength, pad) ==
    IF Len(s) >= targetLength THEN s
    ELSE [i \in 1 .. (targetLength - Len(s)) |-> pad] \o s

\* padFrame(value): the frame id, a string of digits.
padFrame(value) == padStart(String(value), 4, 0)

\* Number(s), s a string of digits: the number it spells (0 for '').
RECURSIVE Number(_)
Number(s) ==
    IF s = <<>> THEN 0
    ELSE 10 * Number(SubSeq(s, 1, Len(s) - 1)) + s[Len(s)]

\* `frame_${frameId}`: the remote name (the scope) of a frame id.
scopeOf(frameId) == <<"frame_">> \o frameId

\* Mutant: the cache-busting value is taken anew at every load.
resolveRemoteUrl_BustPerLoad(frameId) ==
    <<"frame-", frameId, <<"/mf-manifest.json?v=", now>>>>

\* resolveRemoteUrl(frameId, manifestBustRef.current): the bust value is fixed
\* at construction, so the url is a function of the frame id alone.
resolveRemoteUrl(frameId) == <<"frame-", frameId, "/mf-manifest.json?v=bust">>

\* ------------------------------------------------ IEEE 754 double numbers
\* A JavaScript number is a double: sign, 53-bit significand, exponent.  It is
\* kept here as m * 2^e, m a natural number written in binary, least
\* significant bit first, with no leading zero and (m odd or zero) so that
\* equal numbers are equal records.  Every operation computes the exact result
\* and rounds it to 53 significant bits, ties to even.  The numbers of this
\* program stay far from the subnormal and the overflow range.
MantissaBits == 53

BitAt(b, i) == IF i >= 1 /\ i <= Len(b) THEN b[i] ELSE 0

RECURSIVE BitLen(_, _)
BitLen(b, n) == IF n = 0 \/ b[n] = 1 THEN n ELSE BitLen(b, n - 1)
\* Drop the leading zeros.
Trim(b) == SubSeq(b, 1, BitLen(b, Len(b)))

RECURSIVE NatBits(_)
NatBits(n) == IF n = 0 THEN <<>> ELSE <<n % 2>> \o NatBits(n \div 2)

RECURSIVE BitsNat(_, _)
BitsNat(b, i) == IF i > Len(b) THEN 0 ELSE b[i] + 2 * BitsNat(b, i + 1)

ShiftLeft(b, s) == IF b = <<>> THEN b ELSE [i \in 1 .. s |-> 0] \o b
ShiftRight(b, s) == SubSeq(b, s + 1, Len(b))

\* a + b + c from bit i on, c being the carry into bit i
RECURSIVE AddFrom(_, _, _, _)
AddFrom(a, b, i, c) ==
    IF i > Len(a) /\ i > Len(b)
    THEN IF c = 1 THEN <<1>> ELSE <<>>
    ELSE LET t == BitAt(a, i) + BitAt(b, i) + c
         IN  <<t % 2>> \o AddFrom(a, b, i + 1, t \div 2)
AddBits(a, b) == AddFrom(a, b, 1, 0)

\* a - b - c from bit i on, for a >= b, c being the borrow from bit i
RECURSIVE SubFrom(_, _, _, _)
SubFrom(a, b, i, c) ==
    IF i > Len(a) THEN <<>>
    ELSE LET t == a[i] - BitAt(b, i) - c
         IN  <<(t + 2) % 2>> \o SubFrom(a, b, i + 1, IF t < 0 THEN 1 ELSE 0)
SubBits(a, b) == Trim(SubFrom(a, b, 1, 0))

\* a < b
RECURSIVE LessAt(_, _, _)
LessAt(a, b, i) ==
    IF i = 0 THEN FALSE
    ELSE IF a[i] # b[i] THEN a[i] < b[i]
    ELSE LessAt(a, b, i - 1)
LessBits(a, b) ==
    IF Len(a) # Len(b) THEN Len(a) < Len(b) ELSE LessAt(a, b, Len(a))

\* a * b: the sum of a shifted to every one bit of b
RECURSIVE MulBits(_, _, _)
MulBits(a, b, i) ==
    IF i > Len(b) THEN <<>>
    ELSE IF b[i] = 1 THEN AddBits(ShiftLeft(a, i - 1), MulBits(a, b, i + 1))
    ELSE MulBits(a, b, i + 1)

RECURSIVE TrailingZeros(_, _)
TrailingZeros(b, i) ==
    IF i > Len(b) \/ b[i] = 1 THEN i - 1 ELSE TrailingZeros(b, i + 1)

Zero == [neg |-> FALSE, m |-> <<>>, e |-> 0]

\* The double nearest to (-1)^neg * (m * 2^e), to which something smaller
\* than the last bit of m is added when `sticky`: ties go to the even
\* significand.
Round(neg, m, e, sticky) ==
    LET d == Len(m) - MantissaBits
        kept == IF d > 0 THEN ShiftRight(m, d) ELSE m
        half == d > 0 /\ m[d] = 1
        rest == sticky \/ (d > 1 /\ \E i \in 1 .. (d - 1) : m[i] = 1)
        up == half /\ (rest \/ kept[1] = 1)
        r == IF up THEN AddBits(kept, <<1>>) ELSE kept
        z == TrailingZeros(r, 1)
    IN  IF r = <<>> THEN Zero
        ELSE [neg |-> neg, m |-> ShiftRight(r, z), e |-> e + Max(d, 0) + z]

\* Number(n), for an integer n
FromInt(n) ==
    Round(n < 0, NatBits(IF n < 0 THEN -n ELSE n), 0, FALSE)

\* The first n bits of r / b after the binary point (r < b), most
\* significant first, followed by the remainder that is left.
RECURSIVE FractionBits(_, _, _)
FractionBits(r, b, n) ==
    IF n = 0 THEN <<r>>
    ELSE <<(2 * r) \div b>> \o FractionBits((2 * r) % b, b, n - 1)

\* Bits of a quotient computed after the binary point: enough for 53
\* significant bits of any quotient above 2^-22.
QuotientBits == MantissaBits + 22

\* a / b, for integers a and b > 0
Div(a, b) ==
    LET n == IF a < 0 THEN -a ELSE a
        f == FractionBits(n % b, b, QuotientBits)
        m == [i \in 1 .. QuotientBits |-> f[QuotientBits + 1 - i]]
                \o NatBits(n \div b)
    IN  Round(a < 0, Trim(m), -QuotientBits, f[QuotientBits + 1] # 0)

\* x < y
Less(x, y) ==
    IF x.neg # y.neg THEN x.neg
    ELSE LET e == Min(x.e, y.e)
             a == ShiftLeft(x.m, x.e - e)
             b == ShiftLeft(y.m, y.e - e)
         IN  IF x.neg THEN LessBits(b, a) ELSE LessBits(a, b)

\* x + y
Add(x, y) ==
    LET e == Min(x.e, y.e)
        a == ShiftLeft(x.m, x.e - e)
        b == ShiftLeft(y.m, y.e - e)
    IN  IF x.neg = y.neg THEN Round(x.neg, AddBits(a, b), e, FALSE)
        ELSE IF LessBits(a, b) THEN Round(y.neg, SubBits(b, a), e, FALSE)
        ELSE Round(x.neg, SubBits(a, b), e, FALSE)

\* x * y
Mul(x, y) == Round(x.neg # y.neg, MulBits(x.m, y.m, 1), x.e + y.e, FALSE)

\* Math.max(x, y)
MathMax(x, y) == IF Less(x, y) THEN y ELSE x

\* Math.floor(x), as an integer
Floor(x) ==
    LET whole == IF x.e >= 0
                 THEN BitsNat(ShiftLeft(x.m, x.e), 1)
                 ELSE BitsNat(ShiftRight(x.m, Min(-x.e, Len(x.m))), 1)
    IN  IF ~x.neg THEN whole
        ELSE IF x.e < 0 THEN -(whole + 1)
        ELSE -whole

\* a % b of two whole numbers, b > 0: the remainder has the sign of a.
Remainder(a, b) == IF a >= 0 THEN a % b ELSE -((-a) % b)

\* ---------------------------------------------------------- playback clock
\* Math.floor(frameTime * fps) % frameCount
frameOf(frameTime, r, F) == Remainder(Floor(Mul(frameTime, FromInt(r))), F)

\* getDesiredFrameIndex, audio active: a.currentTime and the offset are
\* numbers of seconds; r is fps and F is frameCount.
audioFrameIndex(currentTime, offset, r, F) ==
    frameOf(MathMax(Zero, Add(currentTime, offset)), r, F)

\* getDesiredFrameIndex, fallback clock: t, perfStart in whole milliseconds.
wallFrameIndex(perfStart, perfStartFrame, t, r, F) ==
    LET elapsedSec == MathMax(Zero, Div(t - perfStart, MsPerSec))
        frameTime  == Add(Div(perfStartFrame, r), elapsedSec)
    IN  frameOf(frameTime, r, F)

\* The scheduler's clock advances by whole frame deltas: the elapsed times
\* and the audio positions it can be asked for, and the index for each.
ElapsedTimes == {j * d : j \in 0 .. MaxNow, d \in FrameDeltas} \cap (0 .. MaxNow)
AudioPositions == {k * MsPerSec + n * fps : k \in Frames, n \in ElapsedTimes}
WallIndexTable ==
    [k \in Frames |->
        [d \in ElapsedTimes |-> wallFrameIndex(0, k, d, fps, frameCount)]]
AudioIndexTable ==
    [p \in AudioPositions |->
        audioFrameIndex(Div(p, MsPerSec * fps), FromInt(initialAudioOffsetSec),
                        fps, frameCount)]

\* getDesiredFrameIndex(now)
getDesiredFrameIndex(t) ==
    IF hasAudio /\ ~audioPaused
    THEN AudioIndexTable[audioPos]
    ELSE WallIndexTable[perfStartFrameRef][t - perfStartRef]

\* stepFrame: (frameIndexRef.current + 1) % frameCount
stepIndex(current, F) == (current + 1) % F

\* onScrub: Math.max(0, Math.min(frameCount - 1, value - 1))
scrubIndex(value, F) == Max(0, Min(F - 1, value - 1))

\* What getDesiredFrameIndex reads, for any frame count F and rate r: whether
\* the audio branch is taken, the two refs and `now` in ms, a.currentTime and
\* the audio offset in thousandths of a second.
ClockInput(audio, F, r, perfStart, perfStartFrame, t, currentTime, offset) ==
    [audio |-> audio, F |-> F, r |-> r, perfStart |-> perfStart,
     perfStartFrame |-> perfStartFrame, now |-> t,
     currentTime |-> currentTime, offset |-> offset]
\* Nothing is given to it.
NoClockInput == <<>>
ClockOutput(op, index, before) == [op |-> op, index |-> index, before |-> before]
NoClockOutput == ClockOutput("idle", 0, 0)

\* Mutant: the fallback clock does not clamp the elapsed time at zero.
desiredFrameIndex_NoClamp(in) ==
    IF in.audio
    THEN audioFrameIndex(Div(in.currentTime, MsPerSec), Div(in.offset, MsPerSec),
                         in.r, in.F)
    ELSE frameOf(Add(Div(in.perfStartFrame, in.r),
                     Div(in.now - in.perfStart, MsPerSec)), in.r, in.F)

\* getDesiredFrameIndex(now) for those inputs.
desiredFrameIndex(in) ==
    IF in.audio
    THEN audioFrameIndex(Div(in.currentTime, MsPerSec), Div(in.offset, MsPerSec),
                         in.r, in.F)
    ELSE wallFrameIndex(in.perfStart, in.perfStartFrame, in.now, in.r, in.F)

\* a.currentTime = Math.max(0, nextIndex / fps - audioOffsetRef.current)
SeekPos(nextIndex) ==
    Max(0, nextIndex * MsPerSec - initialAudioOffsetSec * fps * MsPerSec)

\* ------------------------------------------------------ mfRuntime registry
\* padFrame(index + 1) for the frames of the animation, computed once.
FrameIds == [index \in Frames |-> padFrame(index + 1)]
RemoteNames == {scopeOf(FrameIds[index]) : index \in Frames}

\* Mutant: the entry recorded first for a name is never replaced.
ensureRemote_KeepsFirst(name, entry) ==
    IF registeredEntryByName[name] # NoEntry
    THEN registeredEntryByName
    ELSE [registeredEntryByName EXCEPT ![name] = entry]

\* ensureRemote({name, entry}): the map after the call returns normally.
ensureRemote(name, entry) ==
    IF registeredEntryByName[name] = entry
    THEN registeredEntryByName
    ELSE [registeredEntryByName EXCEPT ![name] = entry]

\* ---------------------------------------------- generated frame modules
\* mount(target): append the <style> once, set target.innerHTML.
mountModule(dom, m) ==
    [stage |-> m, styleEl |-> dom.styleEl \cup {m}]

\* unmount(target): clear target.innerHTML, remove the <style>.
unmountModule(dom, m) ==
    [stage |-> NoModule, styleEl |-> dom.styleEl \ {m}]

\* --------------------------------------------------------- load protocol
\* renderFrame(index) up to its await, once past its first line: ensureRemote
\* returns and loadRemoteModule is called and awaited, or registerRemotes
\* throws and the catch and finally blocks run at once.
startLoad(index, pre, flag) ==
    LET frameId   == FrameIds[index]
        scope     == scopeOf(frameId)
        remoteUrl == resolveRemoteUrl(frameId)
    IN  /\ lastDispatched' = index
        /\ \/ /\ registeredEntryByName' = ensureRemote(scope, remoteUrl)
              /\ inflight' = Append(inflight, index)
              /\ loadingRef' = flag
              /\ loading' = flag
              /\ error' = ""
              /\ trace' = pre \o <<Ev("ensureRemote", index),
                                   Ev("loadRemoteModule", index)>>
           \/ /\ registeredEntryByName[scope] # remoteUrl
              /\ UNCHANGED <<registeredEntryByName, inflight>>
              /\ loadingRef' = FALSE
              /\ loading' = FALSE
              /\ error' = "register failed"
              /\ trace' = pre \o <<Ev("ensureRemoteThrew", index)>>

\* Mutant: the `loadingRef.current` test of the first line is missing.
renderFrame_NoGuard(index, pre) == startLoad(index, pre, TRUE)

\* Mutant: loadingRef.current and loading are not set.
renderFrame_NoFlag(index, pre) ==
    IF loadingRef
    THEN /\ trace' = pre
         /\ UNCHANGED loadVars
    ELSE startLoad(index, pre, FALSE)

\* renderFrame(index) up to its await.  `pre` is what the caller has already
\* put in the trace of this step.  stageRef.current is set once the component
\* is mounted, and every caller runs after that.
renderFrame(index, pre) ==
    IF loadingRef
    THEN /\ trace' = pre
         /\ UNCHANGED loadVars
    ELSE startLoad(index, pre, TRUE)

\* Mutant: the new module is mounted before the previous one is unmounted.
swapModule_MountFirst(mod, unmountThrows, mountThrows) ==
    LET dom0 == [stage |-> stage, styleEl |-> styleEl]
        prev == currentModuleRef
        callsUnmount == prev # NoModule /\ prev \notin unmountless
        dom1 == mountModule(dom0, mod)
    IN  [cur |-> mod,
         dom |-> IF callsUnmount THEN unmountModule(dom1, prev) ELSE dom1,
         error |-> error,
         ops |-> <<Ev("mount", mod)>> \o
                 (IF callsUnmount THEN <<Ev("unmount", prev)>> ELSE <<>>)]

\* Mutant: the previous module is not unmounted.
swapModule_NoUnmount(mod, unmountThrows, mountThrows) ==
    LET dom0 == [stage |-> stage, styleEl |-> styleEl]
    IN  IF mountThrows
        THEN [cur |-> currentModuleRef, dom |-> dom0, error |-> "mount threw",
              ops |-> <<Ev("mountThrew", mod)>>]
        ELSE [cur |-> mod, dom |-> mountModule(dom0, mod), error |-> error,
              ops |-> <<Ev("mount", mod)>>]

\* The try block after the await, for a resolved module `mod`: the stage, the
\* current module, the error state and the calls made, in order.
swapModule(mod, unmountThrows, mountThrows) ==
    LET dom0 == [stage |-> stage, styleEl |-> styleEl]
        prev == currentModuleRef
        callsUnmount == prev # NoModule /\ prev \notin unmountless
    IN  IF callsUnmount /\ unmountThrows
        THEN [cur |-> prev, dom |-> dom0, error |-> "unmount threw",
              ops |-> <<Ev("unmountThrew", prev)>>]
        ELSE LET dom1 == IF callsUnmount THEN unmountModule(dom0, prev) ELSE dom0
                 ops1 == IF callsUnmount THEN <<Ev("unmount", prev)>> ELSE <<>>
             IN  IF mountThrows
                 THEN [cur |-> prev, dom |-> dom1, error |-> "mount threw",
                       ops |-> ops1 \o <<Ev("mountThrew", mod)>>]
                 ELSE [cur |-> mod, dom |-> mountModule(dom1, mod),
                       error |-> error,
                       ops |-> ops1 \o <<Ev("mount", mod)>>]

\* Mutant: the catch block clears the stage.
loadFailed_Unmounts(index) ==
    [cur |-> NoModule,
     dom |-> [stage |-> NoModule, styleEl |-> styleEl \ {currentModuleRef}],
     error |-> "load failed", ops |-> <<>>]

\* The catch block for a rejected load.
loadFailed(index) ==
    [cur |-> currentModuleRef, dom |-> [stage |-> stage, styleEl |-> styleEl],
     error |-> "load failed", ops |-> <<>>]

RemoveAt(s, k) == SubSeq(s, 1, k - 1) \o SubSeq(s, k + 1, Len(s))

\* The end of renderFrame, `finally` being run or not.
finishLoad(k, r, first, finally) ==
    /\ inflight' = RemoveAt(inflight, k)
    /\ currentModuleRef' = r.cur
    /\ stage' = r.dom.stage
    /\ styleEl' = r.dom.styleEl
    /\ error' = r.error
    /\ trace' = <<first>> \o r.ops
    /\ loadingRef' = (IF finally THEN FALSE ELSE loadingRef)
    /\ loading' = (IF finally THEN FALSE ELSE loading)
    /\ UNCHANGED <<registeredEntryByName, unmountless, lastDispatched>>

\* Mutant: loading is cleared after the try block, not in a finally block.
renderFrameResume_NoFinally(k, ok, unmountThrows, mountThrows) ==
    LET index == inflight[k]
        r == IF ok THEN swapModule(index, unmountThrows, mountThrows)
                   ELSE loadFailed(index)
    IN  finishLoad(k, r, Ev(IF ok THEN "resolved" ELSE "rejected", index),
                   r.error \notin {"unmount threw", "mount threw"})

\* Mutant: a load that settles while the scheduler is paused is dropped.
renderFrameResume_DropsWhenPaused(k, ok, unmountThrows, mountThrows) ==
    LET index == inflight[k]
        keep == [cur |-> currentModuleRef,
                 dom |-> [stage |-> stage, styleEl |-> styleEl],
                 error |-> error, ops |-> <<>>]
        r == IF ~ok THEN loadFailed(index)
             ELSE IF ~playing THEN keep
             ELSE swapModule(index, unmountThrows, mountThrows)
    IN  finishLoad(k, r, Ev(IF ok THEN "resolved" ELSE "rejected", index), TRUE)

\* renderFrame from the settlement of loadRemoteModule to its end.
renderFrameResume(k, ok, unmountThrows, mountThrows) ==
    LET index == inflight[k]
        r == IF ok THEN swapModule(index, unmountThrows, mountThrows)
                   ELSE loadFailed(index)
    IN  finishLoad(k, r, Ev(IF ok THEN "resolved" ELSE "rejected", index), TRUE)

\* --------------------------------------------------- animation-frame queue
Callback(closurePlaying) == [live |-> closurePlaying, ref |-> TRUE]

\* rafRef.current = requestAnimationFrame(tick): the new id replaces the old.
requestAnimationFrame(q, closurePlaying) ==
    Append([i \in 1 .. Len(q) |-> [q[i] EXCEPT !.ref = FALSE]],
           Callback(closurePlaying))

\* if (rafRef.current) cancelAnimationFrame(rafRef.current)
cancelAnimationFrame(q) ==
    IF rafSet THEN SelectSeq(q, LAMBDA c : ~c.ref) ELSE q

\* ------------------------------------------------------------- scheduler
\* No handler is running and nothing is left to commit: the next task of the
\* event loop may start.  (React commits the render and the effects of a
\* discrete event before the event loop takes another task.)
Settled == hasMountedRef /\ frameQueue = <<>> /\ renderedPlaying = playing

\* Mutant: a tick that finds an error message set does not request the next
\* animation frame.
tick_HaltsOnError(closurePlaying, t) ==
    IF ~closurePlaying \/ error # ""
    THEN /\ trace' = <<>>
         /\ UNCHANGED <<frameIndexRef, frameIndex, lastTickRef, rafSet, pending>>
         /\ UNCHANGED loadVars
    ELSE /\ IF (t - lastTickRef) * fps >= MsPerSec
            THEN /\ lastTickRef' = t
                 /\ LET desired == getDesiredFrameIndex(t)
                    IN  IF desired # frameIndexRef
                        THEN /\ frameIndexRef' = desired
                             /\ frameIndex' = desired
                             /\ IF ~loadingRef
                                THEN renderFrame(desired, <<Ev("clock", desired)>>)
                                ELSE /\ trace' = <<Ev("clock", desired)>>
                                     /\ UNCHANGED loadVars
                        ELSE /\ trace' = <<Ev("clock", desired)>>
                             /\ UNCHANGED <<frameIndexRef, frameIndex>>
                             /\ UNCHANGED loadVars
            ELSE /\ trace' = <<>>
                 /\ UNCHANGED <<frameIndexRef, frameIndex, lastTickRef>>
                 /\ UNCHANGED loadVars
         /\ pending' = requestAnimationFrame(pending, closurePlaying)
         /\ rafSet' = TRUE

\* tick(now), for the closure of a render in which `playing` was closurePlaying.
tick(closurePlaying, t) ==
    IF ~closurePlaying
    THEN /\ trace' = <<>>
         /\ UNCHANGED <<frameIndexRef, frameIndex, lastTickRef, rafSet, pending>>
         /\ UNCHANGED loadVars
    ELSE /\ IF (t - lastTickRef) * fps >= MsPerSec
            THEN /\ lastTickRef' = t
                 /\ LET desired == getDesiredFrameIndex(t)
                    IN  IF desired # frameIndexRef
                        THEN /\ frameIndexRef' = desired
                             /\ frameIndex' = desired
                             /\ IF ~loadingRef
                                THEN renderFrame(desired, <<Ev("clock", desired)>>)
                                ELSE /\ trace' = <<Ev("clock", desired)>>
                                     /\ UNCHANGED loadVars
                        ELSE /\ trace' = <<Ev("clock", desired)>>
                             /\ UNCHANGED <<frameIndexRef, frameIndex>>
                             /\ UNCHANGED loadVars
            ELSE /\ trace' = <<>>
                 /\ UNCHANGED <<frameIndexRef, frameIndex, lastTickRef>>
                 /\ UNCHANGED loadVars
         /\ pending' = requestAnimationFrame(pending, closurePlaying)
         /\ rafSet' = TRUE

\* pause()
pause ==
    /\ playing' = FALSE
    /\ audioPaused' = IF hasAudio THEN TRUE ELSE audioPaused
    /\ pending' = cancelAnimationFrame(pending)
    /\ UNCHANGED <<rafSet, frameQueue>>

\* useEffect(() => { renderFrame(0) }, []) on mount.  The [playing] effect also
\* runs on mount, with playing false and rafRef.current null: it does nothing.
InitialRender ==
    /\ UNCHANGED remoteVars
    /\ ~hasMountedRef
    /\ hasMountedRef' = TRUE
    /\ renderFrame(0, <<>>)
    /\ UNCHANGED <<reactVars, clockVars, audioVars, domVars, rafVars,
                   frameIndexRef>>

\* Mutant: play() records the origin timestamp but not the origin frame.
Play_KeepsOriginFrame ==
    /\ UNCHANGED remoteVars
    /\ Settled
    /\ ~renderedPlaying
    /\ Len(pending) + playAwait + 2 <= MaxCallbacks
    /\ playing' = TRUE
    /\ lastTickRef' = now
    /\ perfStartRef' = now
    /\ IF hasAudio
       THEN /\ \E allowed \in BOOLEAN : audioPaused' = ~allowed
            /\ playAwait' = playAwait + 1
            /\ UNCHANGED <<pending, rafSet>>
       ELSE /\ pending' = requestAnimationFrame(pending, renderedPlaying)
            /\ rafSet' = TRUE
            /\ UNCHANGED <<audioPaused, playAwait>>
    /\ trace' = <<>>
    /\ UNCHANGED <<renderedPlaying, frameIndex, frameIndexRef, now, hasAudio,
                   audioPos, hasMountedRef, frameQueue, perfStartFrameRef>>
    /\ UNCHANGED <<loadVars, domVars>>

\* play() up to `await a.play()`, or to its end when there is no audio.
Play ==
    /\ UNCHANGED remoteVars
    /\ Settled
    /\ ~renderedPlaying
    /\ Len(pending) + playAwait + 2 <= MaxCallbacks
    /\ playing' = TRUE
    /\ lastTickRef' = now
    /\ perfStartRef' = now
    /\ perfStartFrameRef' = frameIndexRef
    /\ IF hasAudio
       THEN /\ \E allowed \in BOOLEAN : audioPaused' = ~allowed
            /\ playAwait' = playAwait + 1
            /\ UNCHANGED <<pending, rafSet>>
       ELSE /\ pending' = requestAnimationFrame(pending, renderedPlaying)
            /\ rafSet' = TRUE
            /\ UNCHANGED <<audioPaused, playAwait>>
    /\ trace' = <<>>
    /\ UNCHANGED <<renderedPlaying, frameIndex, frameIndexRef, now, hasAudio,
                   audioPos, hasMountedRef, frameQueue>>
    /\ UNCHANGED <<loadVars, domVars>>

\* play() after `await a.play()` settles.  The call passed `if (playing)
\* return`, so the tick of its closure sees playing false.
PlayResume ==
    /\ UNCHANGED remoteVars
    /\ Settled
    /\ playAwait > 0
    /\ playAwait' = playAwait - 1
    /\ \E ok \in BOOLEAN :
          error' = IF ok THEN error ELSE "audio play blocked"
    /\ pending' = requestAnimationFrame(pending, FALSE)
    /\ rafSet' = TRUE
    /\ trace' = <<>>
    /\ UNCHANGED <<reactVars, clockVars, domVars, hasAudio, audioPaused,
                   audioPos, frameIndexRef, hasMountedRef, frameQueue, loading,
                   loadingRef, registeredEntryByName, inflight,
                   lastDispatched>>

\* The Pause button.
Pause ==
    /\ UNCHANGED remoteVars
    /\ Settled
    /\ renderedPlaying
    /\ pause
    /\ trace' = <<Ev("pause", frameIndexRef)>>
    /\ UNCHANGED <<renderedPlaying, frameIndex, frameIndexRef, clockVars,
                   hasAudio, audioPos, playAwait, hasMountedRef>>
    /\ UNCHANGED <<loadVars, domVars>>

\* The effect of useEffect(..., [playing]) when the committed `playing`
\* changes: the previous effect's cleanup, then the effect.
PlayingEffect ==
    /\ UNCHANGED remoteVars
    /\ hasMountedRef
    /\ renderedPlaying # playing
    /\ renderedPlaying' = playing
    /\ LET cleaned == cancelAnimationFrame(pending)
       IN  pending' = IF playing THEN requestAnimationFrame(cleaned, playing)
                                 ELSE cleaned
    /\ rafSet' = (rafSet \/ playing)
    /\ trace' = <<>>
    /\ UNCHANGED <<playing, frameIndex, frameIndexRef, clockVars, audioVars,
                   hasMountedRef, frameQueue>>
    /\ UNCHANGED <<loadVars, domVars>>

\* stepFrame()
StepFrame ==
    /\ UNCHANGED remoteVars
    /\ Settled
    /\ pause
    /\ LET nextIndex == stepIndex(frameIndexRef, frameCount)
       IN  /\ frameIndexRef' = nextIndex
           /\ frameIndex' = nextIndex
           /\ audioPos' = IF hasAudio THEN SeekPos(nextIndex) ELSE audioPos
           /\ renderFrame(nextIndex, <<Ev("pause", frameIndexRef)>>)
    /\ UNCHANGED <<renderedPlaying, clockVars, hasAudio, playAwait,
                   hasMountedRef, domVars>>

\* onScrub(event), event.target.value being `value`.
OnScrub(value) ==
    /\ UNCHANGED remoteVars
    /\ Settled
    /\ pause
    /\ LET nextIndex == scrubIndex(value, frameCount)
       IN  /\ frameIndexRef' = nextIndex
           /\ frameIndex' = nextIndex
           /\ audioPos' = IF hasAudio THEN SeekPos(nextIndex) ELSE audioPos
           /\ renderFrame(nextIndex, <<Ev("pause", frameIndexRef)>>)
    /\ UNCHANGED <<renderedPlaying, clockVars, hasAudio, playAwait,
                   hasMountedRef, domVars>>

\* The browser starts an animation frame `d` ms after the last one: the
\* callbacks requested so far will run, in request order, with this timestamp.
\* Playing audio has advanced by as much, unless it stalled.
BeginFrame(d) ==
    /\ UNCHANGED remoteVars
    /\ Settled
    /\ pending # <<>>
    /\ now + d <= MaxNow
    /\ now' = now + d
    /\ frameQueue' = [i \in 1 .. Len(pending) |-> pending[i].live]
    /\ pending' = <<>>
    /\ IF hasAudio /\ ~audioPaused
       THEN audioPos' \in {audioPos, audioPos + d * fps}
       ELSE UNCHANGED audioPos
    /\ trace' = <<>>
    /\ UNCHANGED <<reactVars, lastTickRef, perfStartRef, perfStartFrameRef,
                   hasAudio, audioPaused, playAwait, frameIndexRef,
                   hasMountedRef, rafSet>>
    /\ UNCHANGED <<loadVars, domVars>>

\* The next callback of the running animation frame.
RunCallback ==
    /\ UNCHANGED remoteVars
    /\ frameQueue # <<>>
    /\ frameQueue' = Tail(frameQueue)
    /\ tick(Head(frameQueue), now)
    /\ UNCHANGED <<playing, renderedPlaying, perfStartRef, perfStartFrameRef,
                   now, audioVars, hasMountedRef, domVars>>

\* loadRemoteModule settles and renderFrame runs to its end.
LoadSettle ==
    /\ UNCHANGED remoteVars
    /\ Settled
    /\ \E k \in 1 .. Len(inflight), ok, unmountThrows, mountThrows \in BOOLEAN :
          renderFrameResume(k, ok, unmountThrows, mountThrows)
    /\ UNCHANGED <<reactVars, clockVars, audioVars, rafVars, frameIndexRef,
                   hasMountedRef>>

\* ------------------------------------------------- mfRuntime: the resolver
\* An error message, as far as the catch block looks at it: which of the
\* substrings it searches for the message contains, and what the regular
\* expression of parseSharedPkgName captures ("" when it does not match).
NoError == [text |-> {}, pkg |-> ""]

Messages ==
    {[text |-> t, pkg |-> p] :
        t \in {{"RUNTIME-006"}, {"Invalid loadShareSync"},
               {"RUNTIME-006", "RUNTIME-008"}},
        p \in {"", "react"}}
      \cup {[text |-> t, pkg |-> ""] :
              t \in {{"RUNTIME-008"}, {"expected expression, got '<'"},
                     {"Failed to fetch"}}}

\* new Error(`Remote module returned null: ${id}`)
NullError == [text |-> {"Remote module returned null"}, pkg |-> ""]
\* What a rejected loadShare and a throwing registerRemotes give.
ShareError == [text |-> {"loadShare failed"}, pkg |-> ""]
RegisterError == [text |-> {"registerRemotes failed"}, pkg |-> ""]

\* msg.includes(s)
includes(msg, s) == s \in msg.text

\* parseSharedPkgName(message): match?.[1] ?? null
parseSharedPkgName(msg) == msg.pkg

\* The ids given to loadRemoteModule: `${scope}/Frame` for the remote names,
\* and an id whose part before the first '/' is empty.
EmptyName == <<>>
NoId == <<>>
ResolveIds == {<<n, "Frame">> : n \in RemoteNames \cup {EmptyName}}

\* id.split('/')[0] || ''
remoteNameOf(id) == id[1]

\* The module the remote named in an id exposes, told apart by the number of
\* its frame.
exposedModule(id) ==
    IF remoteNameOf(id) = EmptyName THEN 0 ELSE Number(Tail(remoteNameOf(id)))

\* registeredEntryByName.get(remoteName)
recordedEntry(name) ==
    IF name \in DOMAIN registeredEntryByName
    THEN registeredEntryByName[name]
    ELSE NoEntry

\* The entry locations given to ensureRemote.
Entries == {resolveRemoteUrl(padFrame(index + 1)) : index \in Frames}

\* Settlements of a promise.
Pending == [kind |-> "pending", mod |-> NoModule, msg |-> NoError]
Fulfilled(mod) == [kind |-> "fulfilled", mod |-> mod, msg |-> NoError]
Rejected(msg) == [kind |-> "rejected", mod |-> NoModule, msg |-> msg]

\* What a loadRemote(id) call can do: give the module, give null, or throw.
LoadRemoteOutcomes ==
    {[ok |-> TRUE, missing |-> m, msg |-> NoError] : m \in BOOLEAN}
      \cup {[ok |-> FALSE, missing |-> FALSE, msg |-> e] : e \in Messages}

\* What the n-th loadRemote(id) call of the resolve gave: the module of the
\* remote the id names, null (NoModule), or an error.
Attempt(n, outcome) ==
    [n |-> n, ok |-> outcome.ok,
     mod |-> IF outcome.ok /\ ~outcome.missing THEN exposedModule(resolveId)
                                               ELSE NoModule,
     msg |-> outcome.msg]
NoAttempt == [n |-> 0, ok |-> TRUE, mod |-> NoModule, msg |-> NoError]

\* Calls into the federation runtime.
RuntimeCall(op, pkg, name, entry) ==
    [op |-> op, pkg |-> pkg, name |-> name, entry |-> entry]
LoadRemoteCall == RuntimeCall("loadRemote", "", EmptyName, NoEntry)
LoadShareCall(pkg) == RuntimeCall("loadShare", pkg, EmptyName, NoEntry)
LoadShareDone(ok) ==
    RuntimeCall(IF ok THEN "loadShare fulfilled" ELSE "loadShare rejected",
                "", EmptyName, NoEntry)
RegisterRemotesCall(name, entry) ==
    RuntimeCall("registerRemotes", "", name, entry)

\* registerRemotes([{name, entry}], {force})
Registration(name, entry, force) ==
    [name |-> name, entry |-> entry, force |-> force]

NoCall == [fn |-> "", name |-> EmptyName, entry |-> NoEntry, threw |-> FALSE]
EnsureCall(name, entry, threw) ==
    [fn |-> "ensureRemote", name |-> name, entry |-> entry, threw |-> threw]

\* Mutant: ensureRemote registers on every call.
EnsureRemote_AlwaysRegisters(name, entry, registerThrows) ==
    /\ registerCalls' = <<Registration(name, entry, TRUE)>>
    /\ called' = EnsureCall(name, entry, registerThrows)
    /\ registeredEntryByName' =
          IF registerThrows THEN registeredEntryByName
                            ELSE [registeredEntryByName EXCEPT ![name] = entry]
    /\ UNCHANGED <<resolvePc, resolveId, caught, resolveResult, runtimeCalls,
                   lastAttempt>>
    /\ UNCHANGED <<schedulerVars, loaderVars>>

\* ensureRemote({name, entry}), registerRemotes returning or throwing.
EnsureRemote(name, entry, registerThrows) ==
    /\ IF registeredEntryByName[name] = entry
       THEN /\ registerCalls' = <<>>
            /\ called' = EnsureCall(name, entry, FALSE)
            /\ registeredEntryByName' = ensureRemote(name, entry)
       ELSE /\ registerCalls' = <<Registration(name, entry, TRUE)>>
            /\ called' = EnsureCall(name, entry, registerThrows)
            /\ registeredEntryByName' =
                  IF registerThrows THEN registeredEntryByName
                                    ELSE ensureRemote(name, entry)
    /\ UNCHANGED <<resolvePc, resolveId, caught, resolveResult, runtimeCalls,
                   lastAttempt>>
    /\ UNCHANGED <<schedulerVars, loaderVars>>

\* What a loadRemote result becomes when nothing catches it: the module, the
\* null error, or the error thrown.
resultOf(att) ==
    IF ~att.ok THEN Rejected(att.msg)
    ELSE IF att.mod = NoModule THEN Rejected(NullError)
    ELSE Fulfilled(att.mod)

\* Mutant: the stale-manifest recovery registers another entry than the one
\* recorded for the name.
catchBlock_RegistersOther(err, registerThrows) ==
    LET name  == remoteNameOf(resolveId)
        entry == recordedEntry(name)
        other == CHOOSE e \in Entries : e # entry
    IN  IF (includes(err, "RUNTIME-008")
              \/ includes(err, "expected expression, got '<'"))
           /\ name # EmptyName /\ entry # NoEntry
        THEN [pc |-> "retry", result |-> Pending,
              calls |-> <<RegisterRemotesCall(name, other), LoadRemoteCall>>,
              registerCalls |-> <<Registration(name, other, TRUE)>>]
        ELSE [pc |-> "done", result |-> Rejected(err), calls |-> <<>>,
              registerCalls |-> <<>>]

\* Mutant: the retry does not wait for loadShare.
catchBlock_NoAwait(err, registerThrows) ==
    LET name  == remoteNameOf(resolveId)
        entry == recordedEntry(name)
        pkg   == parseSharedPkgName(err)
    IN  IF (includes(err, "RUNTIME-006") \/ includes(err, "Invalid loadShareSync"))
           /\ pkg # ""
        THEN [pc |-> "retry", result |-> Pending,
              calls |-> <<LoadShareCall(pkg), LoadRemoteCall>>,
              registerCalls |-> <<>>]
        ELSE IF (includes(err, "RUNTIME-008")
                   \/ includes(err, "expected expression, got '<'"))
                /\ name # EmptyName /\ entry # NoEntry
        THEN IF registerThrows
             THEN [pc |-> "done", result |-> Rejected(RegisterError),
                   calls |-> <<RegisterRemotesCall(name, entry)>>,
                   registerCalls |-> <<Registration(name, entry, TRUE)>>]
             ELSE [pc |-> "retry", result |-> Pending,
                   calls |-> <<RegisterRemotesCall(name, entry), LoadRemoteCall>>,
                   registerCalls |-> <<Registration(name, entry, TRUE)>>]
        ELSE [pc |-> "done", result |-> Rejected(err), calls |-> <<>>,
              registerCalls |-> <<>>]

\* Mutant: the stale-manifest recovery goes through ensureRemote, which does
\* nothing for the entry that is already recorded.
catchBlock_EnsuresRemote(err, registerThrows) ==
    LET name  == remoteNameOf(resolveId)
        entry == recordedEntry(name)
        pkg   == parseSharedPkgName(err)
    IN  IF (includes(err, "RUNTIME-006") \/ includes(err, "Invalid loadShareSync"))
           /\ pkg # ""
        THEN [pc |-> "share", result |-> Pending,
              calls |-> <<LoadShareCall(pkg)>>, registerCalls |-> <<>>]
        ELSE IF (includes(err, "RUNTIME-008")
                   \/ includes(err, "expected expression, got '<'"))
                /\ name # EmptyName /\ entry # NoEntry
        THEN [pc |-> "retry", result |-> Pending,
              calls |-> <<LoadRemoteCall>>, registerCalls |-> <<>>]
        ELSE [pc |-> "done", result |-> Rejected(err), calls |-> <<>>,
              registerCalls |-> <<>>]

\* The catch block of loadRemoteModule up to its first await or its throw,
\* for the caught error `err`: where the call stands then, its settlement, and
\* the calls it made.
catchBlock(err, registerThrows) ==
    LET name  == remoteNameOf(resolveId)
        entry == recordedEntry(name)
        pkg   == parseSharedPkgName(err)
    IN  IF (includes(err, "RUNTIME-006") \/ includes(err, "Invalid loadShareSync"))
           /\ pkg # ""
        THEN [pc |-> "share", result |-> Pending,
              calls |-> <<LoadShareCall(pkg)>>, registerCalls |-> <<>>]
        ELSE IF (includes(err, "RUNTIME-008")
                   \/ includes(err, "expected expression, got '<'"))
                /\ name # EmptyName /\ entry # NoEntry
        THEN IF registerThrows
             THEN [pc |-> "done", result |-> Rejected(RegisterError),
                   calls |-> <<RegisterRemotesCall(name, entry)>>,
                   registerCalls |-> <<Registration(name, entry, TRUE)>>]
             ELSE [pc |-> "retry", result |-> Pending,
                   calls |-> <<RegisterRemotesCall(name, entry), LoadRemoteCall>>,
                   registerCalls |-> <<Registration(name, entry, TRUE)>>]
        ELSE [pc |-> "done", result |-> Rejected(err), calls |-> <<>>,
              registerCalls |-> <<>>]

\* Mutant: a retried attempt that fails with a stale-manifest error is
\* retried again.
retrySettled_RetriesAgain(att) ==
    IF ~att.ok /\ (includes(att.msg, "RUNTIME-008")
                     \/ includes(att.msg, "expected expression, got '<'"))
    THEN [pc |-> "retry", result |-> Pending, calls |-> <<LoadRemoteCall>>,
          registerCalls |-> <<>>]
    ELSE [pc |-> "done", result |-> resultOf(att), calls |-> <<>>,
          registerCalls |-> <<>>]

\* The retried loadRemote settles inside the catch block: nothing catches.
retrySettled(att) ==
    [pc |-> "done", result |-> resultOf(att), calls |-> <<>>,
     registerCalls |-> <<>>]

\* One step of the loadRemoteModule call.
resolveStep(r, err, att) ==
    /\ resolvePc' = r.pc
    /\ resolveResult' = r.result
    /\ runtimeCalls' = runtimeCalls \o r.calls
    /\ registerCalls' = r.registerCalls
    /\ caught' = err
    /\ lastAttempt' = att
    /\ called' = NoCall
    /\ UNCHANGED <<resolveId, registeredEntryByName>>
    /\ UNCHANGED <<schedulerVars, loaderVars>>

\* loadRemoteModule(id) up to `await loadRemote(id)`.
LoadRemoteModule(id) ==
    /\ resolvePc \in {"idle", "done"}
    /\ resolvePc' = "first"
    /\ resolveId' = id
    /\ caught' = NoError
    /\ resolveResult' = Pending
    /\ runtimeCalls' = <<LoadRemoteCall>>
    /\ lastAttempt' = NoAttempt
    /\ called' = NoCall
    /\ registerCalls' = <<>>
    /\ UNCHANGED registeredEntryByName
    /\ UNCHANGED <<schedulerVars, loaderVars>>

\* The first loadRemote settles: the module is returned, or the catch block
\* runs (for the error thrown, or for the null error of the try block).
LoadRemoteSettles(outcome, registerThrows) ==
    /\ resolvePc = "first"
    /\ LET att == Attempt(1, outcome)
       IN  IF att.ok /\ att.mod # NoModule
           THEN resolveStep([pc |-> "done", result |-> Fulfilled(att.mod),
                             calls |-> <<>>, registerCalls |-> <<>>],
                            NoError, att)
           ELSE LET err == IF att.ok THEN NullError ELSE att.msg
                IN  resolveStep(catchBlock(err, registerThrows), err, att)

\* `await loadShare(pkg)` settles: the retry is called, or the rejection
\* leaves the catch block.
LoadShareSettles(ok) ==
    /\ resolvePc = "share"
    /\ resolveStep(IF ok
                   THEN [pc |-> "retry", result |-> Pending,
                         calls |-> <<LoadShareDone(TRUE), LoadRemoteCall>>,
                         registerCalls |-> <<>>]
                   ELSE [pc |-> "done", result |-> Rejected(ShareError),
                         calls |-> <<LoadShareDone(FALSE)>>,
                         registerCalls |-> <<>>],
                   caught, lastAttempt)

\* The retried loadRemote settles.
RetrySettles(outcome) ==
    /\ resolvePc = "retry"
    /\ resolveStep(retrySettled(Attempt(2, outcome)), caught,
                   Attempt(2, outcome))

\* ------------------------------------------------------ script-tag loader
\* At most this many script elements are created.
MaxScripts == 2

\* The loader is followed for one scope, the remote of the first frame: the
\* cache and the global binding are kept per scope, and calls for different
\* scopes share nothing.
Scopes == {scopeOf(padFrame(1))}
\* The urls it is called with: the entry location of that remote and one
\* other location.
LoaderUrls == {resolveRemoteUrl(padFrame(1)), resolveRemoteUrl(padFrame(2))}
NoScript == 0
NoArgs == [url |-> NoEntry, scope |-> EmptyName]

ContainerNotFound == [text |-> {"Container not found"}, pkg |-> ""]
\* new Error(`Failed to load remote entry: ${url}`)
EntryLoadError(url) ==
    [text |-> {"Failed to load remote entry"}, pkg |-> "", url |-> url]
SharingInitError == [text |-> {"sharing init failed"}, pkg |-> ""]
InitError == [text |-> {"init failed"}, pkg |-> ""]
GetError == [text |-> {"get failed"}, pkg |-> ""]

\* What container.get(module) and the factory it gives can do.
GetOutcomes == {"module", "missing", "factory throws", "get rejects"}

\* document.createElement('script') with src = url, appended to the head.
\* `scope` is the global the entry at that url binds when it runs.
Script(url, scope) ==
    [src |-> url, scope |-> scope, state |-> "loading", inHead |-> TRUE]

\* Mutant: the cache is not consulted; every call injects a script.
loadRemoteEntry_NoCache(url, scope) ==
    [containers |-> [containers EXCEPT ![scope] = Len(scripts) + 1],
     scripts |-> Append(scripts, Script(url, scope)),
     promise |-> Len(scripts) + 1, created |-> TRUE]

\* loadRemoteEntry(url, scope): the cache, the script elements, the script
\* whose promise is returned, and whether the call created that script.
loadRemoteEntry(url, scope) ==
    IF containers[scope] # NoScript
    THEN [containers |-> containers, scripts |-> scripts,
          promise |-> containers[scope], created |-> FALSE]
    ELSE [containers |-> [containers EXCEPT ![scope] = Len(scripts) + 1],
          scripts |-> Append(scripts, Script(url, scope)),
          promise |-> Len(scripts) + 1, created |-> TRUE]

\* One loadRemoteEntry call, as observed: its url, the promise it returned
\* and whether it injected a script.
EntryCall(url, promise, created) ==
    [url |-> url, promise |-> promise, created |-> created]

\* Mutant: the global binding is not tested; the call goes on with whatever
\* it read.
getContainer_NoCheck(scope) ==
    [pc |-> IF sharingReady THEN "init" ELSE "get",
     container |-> window[scope], result |-> Pending]

\* getContainer(scope) up to its first await, its return or its throw.
getContainer(scope) ==
    IF window[scope] = NoScript
    THEN [pc |-> "done", container |-> NoScript,
          result |-> Rejected(ContainerNotFound)]
    ELSE [pc |-> IF sharingReady THEN "init" ELSE "get",
          container |-> window[scope], result |-> Pending]

\* loadRemoteModule({url, scope, module}) of the script-tag loader, up to
\* `await loadRemoteEntry(url, scope)`.
LoadRemoteModuleByScript(url, scope) ==
    /\ loadPc \in {"idle", "done"}
    /\ containers[scope] = NoScript => Len(scripts) < MaxScripts
    /\ LET e == loadRemoteEntry(url, scope)
       IN  /\ containers' = e.containers
           /\ scripts' = e.scripts
           /\ loadScript' = e.promise
           /\ entryCalls' = [entryCalls EXCEPT ![scope] =
                                @ \cup {EntryCall(url, e.promise, e.created)}]
    /\ loadPc' = "entry"
    /\ loadArgs' = [url |-> url, scope |-> scope]
    /\ loadContainer' = NoScript
    /\ loadResult' = Pending
    /\ UNCHANGED <<window, sharingReady, initCalls>>
    /\ UNCHANGED <<schedulerVars, resolverVars, registeredEntryByName>>

\* Another loadRemoteModule({url, scope, module}) call is made while the call
\* being followed is still awaiting: it runs to the same await.  What that
\* call does afterwards is not followed.
LoadRemoteModuleMeanwhile(url, scope) ==
    /\ loadPc \notin {"idle", "done"}
    /\ containers[scope] = NoScript => Len(scripts) < MaxScripts
    /\ LET e == loadRemoteEntry(url, scope)
       IN  /\ containers' = e.containers
           /\ scripts' = e.scripts
           /\ entryCalls' = [entryCalls EXCEPT ![scope] =
                                @ \cup {EntryCall(url, e.promise, e.created)}]
    /\ UNCHANGED <<window, sharingReady, loadPc, loadArgs, loadScript,
                   loadContainer, loadResult, initCalls>>
    /\ UNCHANGED <<schedulerVars, resolverVars, registeredEntryByName>>

\* script.onload: the entry has run and, if it is an entry of that remote, has
\* bound its container to the global named by the scope.
ScriptLoads(i, binds) ==
    /\ i \in 1 .. Len(scripts)
    /\ scripts[i].state = "loading"
    /\ scripts' = [scripts EXCEPT ![i].state = "loaded"]
    /\ window' = IF binds THEN [window EXCEPT ![scripts[i].scope] = i]
                          ELSE window
    /\ UNCHANGED <<containers, sharingReady, loadPc, loadArgs, loadScript,
                   loadContainer, loadResult, entryCalls, initCalls>>
    /\ UNCHANGED <<schedulerVars, resolverVars, registeredEntryByName>>

\* Mutant: script.onerror also drops the cache entry of the script.
ScriptFails_EvictsEntry(i) ==
    /\ i \in 1 .. Len(scripts)
    /\ scripts[i].state = "loading"
    /\ scripts' = [scripts EXCEPT ![i].state = "failed"]
    /\ containers' = [s \in DOMAIN containers |->
                         IF containers[s] = i THEN NoScript ELSE containers[s]]
    /\ UNCHANGED <<window, sharingReady, loadPc, loadArgs,
                   loadScript, loadContainer, loadResult, entryCalls,
                   initCalls>>
    /\ UNCHANGED <<schedulerVars, resolverVars, registeredEntryByName>>

\* script.onerror
ScriptFails(i) ==
    /\ i \in 1 .. Len(scripts)
    /\ scripts[i].state = "loading"
    /\ scripts' = [scripts EXCEPT ![i].state = "failed"]
    /\ UNCHANGED <<containers, window, sharingReady, loadPc, loadArgs,
                   loadScript, loadContainer, loadResult, entryCalls,
                   initCalls>>
    /\ UNCHANGED <<schedulerVars, resolverVars, registeredEntryByName>>

\* The host initialises its share scope: from now on getSharing() gives an
\* init function and scopes.default.
HostInitSharing ==
    /\ ~sharingReady
    /\ sharingReady' = TRUE
    /\ UNCHANGED <<containers, scripts, window, loadPc, loadArgs, loadScript,
                   loadContainer, loadResult, entryCalls, initCalls>>
    /\ UNCHANGED <<schedulerVars, resolverVars, registeredEntryByName>>

\* Mutant: a call whose entry script failed evicts the cache entry, injects
\* the script again and awaits the new one.
EntrySettles_RetriesFailedEntry ==
    /\ loadPc = "entry"
    /\ scripts[loadScript].state # "loading"
    /\ IF scripts[loadScript].state = "failed"
       THEN /\ Len(scripts) < MaxScripts
            /\ scripts' = Append(scripts, Script(loadArgs.url, loadArgs.scope))
            /\ containers' = [containers EXCEPT ![loadArgs.scope] =
                                 Len(scripts) + 1]
            /\ loadScript' = Len(scripts) + 1
            /\ UNCHANGED <<loadPc, loadContainer, loadResult>>
       ELSE /\ LET c == getContainer(loadArgs.scope)
               IN  /\ loadPc' = c.pc
                   /\ loadContainer' = c.container
                   /\ loadResult' = c.result
            /\ UNCHANGED <<containers, scripts, loadScript>>
    /\ UNCHANGED <<window, sharingReady, loadArgs, entryCalls, initCalls>>
    /\ UNCHANGED <<schedulerVars, resolverVars, registeredEntryByName>>

\* The awaited entry promise has settled: it rejects the call, or
\* getContainer(scope) runs to its first await.
EntrySettles ==
    /\ loadPc = "entry"
    /\ scripts[loadScript].state # "loading"
    /\ LET c == IF scripts[loadScript].state = "failed"
                THEN [pc |-> "done", container |-> NoScript,
                      result |-> Rejected(EntryLoadError(scripts[loadScript].src))]
                ELSE getContainer(loadArgs.scope)
       IN  /\ loadPc' = c.pc
           /\ loadContainer' = c.container
           /\ loadResult' = c.result
    /\ UNCHANGED <<containers, scripts, window, sharingReady, loadArgs,
                   loadScript, entryCalls, initCalls>>
    /\ UNCHANGED <<schedulerVars, resolverVars, registeredEntryByName>>

\* `await sharing.init('default')` settles: container.init(scopes.default) is
\* called, or the rejection ends the call.  A count of 2 stands for two calls
\* or more.
SharingInitSettles(ok) ==
    /\ loadPc = "init"
    /\ loadPc' = IF ok THEN "containerInit" ELSE "done"
    /\ loadResult' = IF ok THEN Pending ELSE Rejected(SharingInitError)
    /\ initCalls' = IF ok
                    THEN [initCalls EXCEPT ![loadContainer] = Min(@ + 1, 2)]
                    ELSE initCalls
    /\ UNCHANGED <<containers, scripts, window, sharingReady, loadArgs,
                   loadScript, loadContainer, entryCalls>>
    /\ UNCHANGED <<schedulerVars, resolverVars, registeredEntryByName>>

\* `await container.init(sharing.scopes.default)` settles.
ContainerInitSettles(ok) ==
    /\ loadPc = "containerInit"
    /\ loadPc' = IF ok THEN "get" ELSE "done"
    /\ loadResult' = IF ok THEN Pending ELSE Rejected(InitError)
    /\ UNCHANGED <<containers, scripts, window, sharingReady, loadArgs,
                   loadScript, loadContainer, entryCalls, initCalls>>
    /\ UNCHANGED <<schedulerVars, resolverVars, registeredEntryByName>>

\* container.get(module) settles and `return factory() as T` runs.
GetSettles(outcome) ==
    /\ loadPc = "get"
    /\ loadPc' = "done"
    /\ loadResult' = CASE outcome = "module" -> Fulfilled(loadContainer)
                       [] outcome = "missing" -> Fulfilled(NoModule)
                       [] OTHER -> Rejected(GetError)
    /\ UNCHANGED <<containers, scripts, window, sharingReady, loadArgs,
                   loadScript, loadContainer, entryCalls, initCalls>>
    /\ UNCHANGED <<schedulerVars, resolverVars, registeredEntryByName>>

\* unloadRemoteContainer(scope), for a scope that has a cached entry.  The
\* delete of the global removes it, or throws and is ignored (a binding that
\* is not configurable stays).
UnloadRemoteContainer(scope, deleted) ==
    /\ containers[scope] # NoScript
    /\ scripts' = [scripts EXCEPT ![containers[scope]].inHead = FALSE]
    /\ window' = IF deleted THEN [window EXCEPT ![scope] = NoScript] ELSE window
    /\ containers' = [containers EXCEPT ![scope] = NoScript]
    /\ entryCalls' = [entryCalls EXCEPT ![scope] = {}]
    /\ UNCHANGED <<sharingReady, loadPc, loadArgs, loadScript, loadContainer,
                   loadResult, initCalls>>
    /\ UNCHANGED <<schedulerVars, resolverVars, registeredEntryByName>>

\* ScrubValues: the slider gives 1..frameCount; one value below and one above
\* exercise the clamp.
ScrubValues == 0 .. (frameCount + 1)

\* The configurations explored: with and without an audio track, the frame
\* modules being the generated ones (buildFrameJs: every module defines
\* unmount), and, without audio, frame 0 being a module that defines none.
Configs == {<<FALSE, {}>>, <<TRUE, {}>>, <<FALSE, {0}>>}

\* ------------------------------------------------------- the frame server
\* `frame-${id}`: the directory of a frame under apps/frames, and the first
\* segment of the paths the host asks for.
frameDirOf(frameId) == <<"frame-">> \o frameId
FrameDirs == {frameDirOf(padFrame(index + 1)) : index \in Frames}
\* A directory name no frame has.
UnknownDir == frameDirOf(padFrame(0))

\* Files of a built frame (its dist directory), and a name that is not one.
ManifestFile == <<"mf-manifest.json">>
EntryFile == <<"remoteEntry.js">>
DistFiles == {ManifestFile, EntryFile}
MissingFile == <<"missing.js">>

\* A publicPath: a base followed by a frame directory and '/', or './'.
PublicPath(base, dir) == <<base, dir>>
RelativePath == PublicPath("./", <<>>)
\* Where the server listens (port 4173).
ServerBase == "http://localhost:4173/"
\* assetPrefix of a build: `${assetBase}/frame-${id}/` for the asset base it
\* was given, else './'.
BuiltPublicPaths(dir) ==
    {RelativePath, PublicPath(ServerBase, dir),
     PublicPath("https://cdn.example/", dir)}
\* A frame that has no dist directory.
NotBuilt == <<>>
\* No frames directory is looked at.
NoDist == <<>>
Dists ==
    {d \in [FrameDirs -> {NotBuilt} \cup UNION {BuiltPublicPaths(dir) :
                                                     dir \in FrameDirs}] :
        \A dir \in FrameDirs : d[dir] \in {NotBuilt} \cup BuiltPublicPaths(dir)}

\* url.pathname.split('/').filter(Boolean) of the requests made.
RequestPaths ==
    {<<>>} \cup {<<dir>> : dir \in FrameDirs \cup {UnknownDir}}
      \cup {<<dir, file>> : dir \in FrameDirs \cup {UnknownDir},
                            file \in DistFiles \cup {MissingFile}}

Request(state, parts) == [state |-> state, parts |-> parts]
NoRequest == Request("none", <<>>)
Body(kind, publicPath, file) ==
    [kind |-> kind, publicPath |-> publicPath, file |-> file]
Response(status, contentType, body) ==
    [status |-> status, contentType |-> contentType, body |-> body]
\* Nothing was answered yet.
NoResponse == <<>>
Banner == Response(200, "text/plain", Body("banner", NotBuilt, <<>>))
NotFound == Response(404, "text/plain", Body("Not found", NotBuilt, <<>>))

\* rest: the path below the frame directory, the manifest when there is none.
restOf(parts) == IF Len(parts) < 2 THEN ManifestFile ELSE parts[2]

\* mime[ext] || 'application/octet-stream'
mime(file) ==
    CASE file = ManifestFile -> "application/json"
      [] file = EntryFile -> "application/javascript"
      [] OTHER -> "application/octet-stream"

\* fs.readFile(path.join(root, frameName, 'dist', rest)) of a file that exists.
readFile(frameName, rest) ==
    IF rest = ManifestFile
    THEN Body("manifest", dist[frameName], <<frameName, rest>>)
    ELSE Body("bytes", NotBuilt, <<frameName, rest>>)

\* The handler runs to `await fs.readFile(filePath)`, or answers the banner.
Receive(parts) ==
    /\ request.state # "reading"
    /\ IF parts = <<>>
       THEN request' = Request("answered", parts) /\ response' = Banner
       ELSE request' = Request("reading", parts) /\ response' = NoResponse
    /\ UNCHANGED <<dist, evalVars, appVars, buildVars, resolverVars, loaderVars,
                   registeredEntryByName>>

\* readFile settles: the bytes are sent as they are, or the catch block
\* answers 404.
ReadSettles ==
    /\ request.state = "reading"
    /\ request' = Request("answered", request.parts)
    /\ LET frameName == request.parts[1]
           rest == restOf(request.parts)
       IN  response' =
              IF /\ frameName \in FrameDirs
                 /\ dist[frameName] # NotBuilt
                 /\ rest \in DistFiles
              THEN Response(200, mime(rest), readFile(frameName, rest))
              ELSE NotFound
    /\ UNCHANGED <<dist, evalVars, appVars, buildVars, resolverVars, loaderVars,
                   registeredEntryByName>>

\* ------------------------------------------------- the frame build pool
\* args.get(key) for a --key=value argument: undefined when the key is not
\* given, true for the bare flag, else the text after '='.  Text that Number()
\* reads as a finite whole number is of kind "number" (the empty text reads
\* as 0); any other text reads as NaN.
Absent == [kind |-> "absent", n |-> 0]
Flag == [kind |-> "flag", n |-> 0]
Text == [kind |-> "text", n |-> 0]
Numeral(n) == [kind |-> "number", n |-> n]

\* const n = Number(value); return Number.isFinite(n) ? n : fallback;
toInt(value, fallback) ==
    IF value.kind = "number" THEN value.n
    ELSE IF value.kind = "flag" THEN 1
    ELSE fallback

\* Math.max(1, toInt(args.get('start'), 1))
startIndex(args) == Max(1, toInt(args.start, 1))

\* Math.max(1, Math.min(32, toInt(args.get('concurrency'), 8)))
concurrency(args) == Max(1, Min(32, toInt(args.concurrency, 8)))

\* Math.max(startIndex, toInt(args.get('end'), 0)) ||
\*   (await findMaxFromFramesDir()) || 0
endIndex(args) ==
    LET given == Max(startIndex(args), toInt(args.end, 0))
    IN  IF given # 0 THEN given ELSE args.framesMax

\* String(n).padStart(4, '0')
pad4(n) == padStart(String(n), 4, 0)

\* for (let i = startIndex; i <= endIndex; i += 1) ids.push(pad4(i))
ids(args) ==
    [k \in 1 .. (endIndex(args) - startIndex(args) + 1) |->
        pad4(startIndex(args) + k - 1)]

\* How far a worker (one async function of the pool) has got.
Created == [state |-> "created", id |-> NoId]
Awaiting(id) == [state |-> "awaiting", id |-> id]
Returned == [state |-> "returned", id |-> NoId]

\* The script after its arguments are read and `ids` is filled.
Parsed(args) ==
    [phase |-> "parsed", args |-> args, concurrency |-> concurrency(args),
     ids |-> ids(args), workers |-> <<>>, started |-> <<>>,
     done |-> 0, ok |-> 0, failed |-> 0, exitCode |-> 0]
NoBuild == <<>>

\* A worker from the top of `while (ids.length)` to `await runOne(id)` or to
\* its return; runOne(id) spawns the build of frame-<id>.
worker(b, w) ==
    IF Len(b.ids) = 0
    THEN [b EXCEPT !.workers[w] = Returned]
    ELSE [b EXCEPT !.ids = Tail(@),
                   !.workers[w] = Awaiting(Head(b.ids)),
                   !.started = Append(@, Head(b.ids))]

\* Array.from({ length }, async () => ...): the workers are called in turn,
\* each running to its first await.
RECURSIVE startWorkers(_, _)
startWorkers(b, w) ==
    IF w > Len(b.workers) THEN b ELSE startWorkers(worker(b, w), w + 1)

\* Mutant: one worker per frame id, whatever the concurrency.
poolSize_IgnoresConcurrency(b) == Len(b.ids)

\* Math.min(concurrency, ids.length)
poolSize(b) == Min(b.concurrency, Len(b.ids))

\* const workers = Array.from(...)
StartWorkers ==
    /\ build.phase = "parsed"
    /\ build' = startWorkers([build EXCEPT
                    !.phase = "running",
                    !.workers = [w \in 1 .. poolSize(build) |-> Created]], 1)
    /\ UNCHANGED <<evalVars, serverVars, appVars, resolverVars, loaderVars,
                   registeredEntryByName>>

\* child.on('close'): runOne's promise resolves and the worker that awaits it
\* goes on: it counts the build, and returns if it failed or takes the next id.
Close(w, code) ==
    /\ build.phase = "running"
    /\ w \in 1 .. Len(build.workers)
    /\ build.workers[w].state = "awaiting"
    /\ build' =
          IF code = 0
          THEN worker([build EXCEPT !.done = @ + 1, !.ok = @ + 1], w)
          ELSE [build EXCEPT !.done = @ + 1, !.failed = @ + 1,
                             !.exitCode = 1, !.workers[w] = Returned]
    /\ UNCHANGED <<evalVars, serverVars, appVars, resolverVars, loaderVars,
                   registeredEntryByName>>

\* await Promise.all(workers) is over; if (failed) process.exit(1).
Finish ==
    /\ build.phase = "running"
    /\ \A w \in 1 .. Len(build.workers) : build.workers[w].state = "returned"
    /\ build' = [build EXCEPT !.phase = "finished",
                              !.exitCode = IF build.failed > 0 THEN 1 ELSE @]
    /\ UNCHANGED <<evalVars, serverVars, appVars, resolverVars, loaderVars,
                   registeredEntryByName>>

\* The host after construction.
InitHost ==
    /\ playing = FALSE
    /\ renderedPlaying = FALSE
    /\ frameIndex = 0
    /\ loading = FALSE
    /\ error = ""
    /\ frameIndexRef = 0
    /\ lastTickRef = 0
    /\ perfStartRef = 0
    /\ perfStartFrameRef = 0
    /\ loadingRef = FALSE
    /\ currentModuleRef = NoModule
    /\ hasMountedRef = FALSE
    /\ rafSet = FALSE
    /\ now = 0
    /\ pending = <<>>
    /\ frameQueue = <<>>
    /\ \E c \in Configs : hasAudio = c[1] /\ unmountless = c[2]
    /\ audioPaused = TRUE
    /\ audioPos = 0
    /\ playAwait = 0
    /\ registeredEntryByName = [n \in RemoteNames |-> NoEntry]
    /\ inflight = <<>>
    /\ stage = NoModule
    /\ styleEl = {}
    /\ lastDispatched = NoModule
    /\ trace = <<>>
    /\ resolvePc = "idle"
    /\ resolveId = NoId
    /\ caught = NoError
    /\ resolveResult = Pending
    /\ runtimeCalls = <<>>
    /\ lastAttempt = NoAttempt
    /\ called = NoCall
    /\ registerCalls = <<>>
    /\ containers = [s \in Scopes |-> NoScript]
    /\ scripts = <<>>
    /\ window = [s \in Scopes |-> NoScript]
    /\ sharingReady = FALSE
    /\ loadPc = "idle"
    /\ loadArgs = NoArgs
    /\ loadScript = NoScript
    /\ loadContainer = NoScript
    /\ loadResult = Pending
    /\ entryCalls = [s \in Scopes |-> {}]
    /\ initCalls = [i \in 1 .. MaxScripts |-> 0]

\* The clock function is not being evaluated and the frame server is not
\* looked at.
ClockIdle == clockIn = NoClockInput /\ clockOut = NoClockOutput
ServerIdle == dist = NoDist /\ request = NoRequest /\ response = NoResponse
BuildIdle == build = NoBuild

Init == InitHost /\ ClockIdle /\ ServerIdle /\ BuildIdle

Next ==
    \/ InitialRender
    \/ Play
    \/ PlayResume
    \/ Pause
    \/ PlayingEffect
    \/ StepFrame
    \/ \E value \in ScrubValues : OnScrub(value)
    \/ \E d \in FrameDeltas : BeginFrame(d)
    \/ RunCallback
    \/ LoadSettle

Spec == Init /\ [][Next]_vars

\* ------------------------------------------- registry and resolver alone
\* The scheduler at rest, in the configuration without audio.
InitRemote == Init /\ ~hasAudio /\ unmountless = {}

NextResolver ==
    \/ \E name \in RemoteNames, entry \in Entries, registerThrows \in BOOLEAN :
          EnsureRemote(name, entry, registerThrows)
    \/ \E id \in ResolveIds : LoadRemoteModule(id)
    \/ \E outcome \in LoadRemoteOutcomes, registerThrows \in BOOLEAN :
          LoadRemoteSettles(outcome, registerThrows)
    \/ \E ok \in BOOLEAN : LoadShareSettles(ok)
    \/ \E outcome \in LoadRemoteOutcomes : RetrySettles(outcome)

SpecResolver == InitRemote /\ [][NextResolver]_vars

\* ------------------------------------------------ script-tag loader alone
NextLoader ==
    \/ \E url \in LoaderUrls, scope \in Scopes :
          LoadRemoteModuleByScript(url, scope)
    \/ \E url \in LoaderUrls, scope \in Scopes :
          LoadRemoteModuleMeanwhile(url, scope)
    \/ \E i \in 1 .. MaxScripts, binds \in BOOLEAN : ScriptLoads(i, binds)
    \/ \E i \in 1 .. MaxScripts : ScriptFails(i)
    \/ HostInitSharing
    \/ EntrySettles
    \/ \E ok \in BOOLEAN : SharingInitSettles(ok)
    \/ \E ok \in BOOLEAN : ContainerInitSettles(ok)
    \/ \E outcome \in GetOutcomes : GetSettles(outcome)
    \/ \E scope \in Scopes, deleted \in BOOLEAN :
          UnloadRemoteContainer(scope, deleted)

SpecLoader == InitRemote /\ [][NextLoader]_vars

\* ----------------------------------------------- the playback clock alone
\* Origin frame indexes up to this one are tried, and the last frame.
MaxOrigin == 8
\* runtimeConfig.frameCount ?? 120
DefaultFrameCount == 120

\* Frame counts: one frame, a few frames, the default, a full animation.
ClockFrameCounts == {1, 7, DefaultFrameCount, 5258}
ClockRates == {fps, fps + 1}
Origins(F) == {k \in 0 .. MaxOrigin : k < F} \cup {F - 1}
\* Milliseconds between the origin timestamp and `now`: before the origin, at
\* it, inside a frame, at frame boundaries, a second later.
ClockElapsed == {-42, 0, 1, 41, 42, 125, 250, 1000}
\* performance.now() read by play().
ClockStart == 1000
\* a.currentTime and the audio offset, in thousandths of a second.
ClockAudioTimes == {0, 1, 500, 1000, 4999, 5000}
ClockOffsets == {-1500, 0, 250}

ClockInputs ==
    UNION {{ClockInput(FALSE, F, r, ClockStart, k, ClockStart + D, 0, 0) :
               r \in ClockRates, k \in Origins(F), D \in ClockElapsed}
             \cup {ClockInput(TRUE, F, r, 0, 0, 0, c, o) :
                      r \in ClockRates, c \in ClockAudioTimes,
                      o \in ClockOffsets} :
           F \in ClockFrameCounts}

\* One loop of the animation, in ms, when that is a whole number of ms.
Period(in) == (in.F * MsPerSec) \div in.r
HasPeriod(in) == (in.F * MsPerSec) % in.r = 0

\* tick: getDesiredFrameIndex(now) is evaluated.
Evaluate ==
    /\ clockOut.op = "idle"
    /\ clockOut' = ClockOutput("tick", desiredFrameIndex(clockIn), 0)
    /\ UNCHANGED <<clockIn, serverVars, appVars, buildVars, resolverVars,
                   loaderVars,
                   registeredEntryByName>>

\* One loop later (now, or a.currentTime, is one period further) it is
\* evaluated again.
EvaluateAfterPeriod ==
    /\ clockOut.op = "tick"
    /\ HasPeriod(clockIn)
    /\ clockIn' = IF clockIn.audio
                  THEN [clockIn EXCEPT !.currentTime = @ + Period(clockIn)]
                  ELSE [clockIn EXCEPT !.now = @ + Period(clockIn)]
    /\ clockOut' = ClockOutput("period", desiredFrameIndex(clockIn'),
                               clockOut.index)
    /\ UNCHANGED <<serverVars, appVars, buildVars, resolverVars,
                   loaderVars,
                   registeredEntryByName>>

\* stepFrame computes the target from the index the tick gave.
StepTarget ==
    /\ clockOut.op = "tick"
    /\ clockOut' = ClockOutput("step", stepIndex(clockOut.index, clockIn.F),
                               clockOut.index)
    /\ UNCHANGED <<clockIn, serverVars, appVars, buildVars, resolverVars,
                   loaderVars,
                   registeredEntryByName>>

\* onScrub computes the target from the slider value.
ScrubTarget(value) ==
    /\ clockOut.op = "tick"
    /\ clockOut' = ClockOutput("scrub", scrubIndex(value, clockIn.F),
                               clockOut.index)
    /\ UNCHANGED <<clockIn, serverVars, appVars, buildVars, resolverVars,
                   loaderVars,
                   registeredEntryByName>>

InitClock ==
    /\ InitHost /\ ~hasAudio /\ unmountless = {}
    /\ ServerIdle
    /\ BuildIdle
    /\ clockIn \in ClockInputs
    /\ clockOut = NoClockOutput

NextClock ==
    \/ Evaluate
    \/ EvaluateAfterPeriod
    \/ StepTarget
    \/ \E value \in {0, 1, clockIn.F, clockIn.F + 1} : ScrubTarget(value)

SpecClock == InitClock /\ [][NextClock]_vars

\* The frame server answering requests, for every state of the built frames.
InitServer ==
    /\ InitHost /\ ~hasAudio /\ unmountless = {}
    /\ ClockIdle
    /\ BuildIdle
    /\ dist \in Dists
    /\ request = NoRequest
    /\ response = NoResponse

NextServer ==
    \/ \E parts \in RequestPaths : Receive(parts)
    \/ ReadSettles

SpecServer == InitServer /\ [][NextServer]_vars

\* ------------------------------------------------ the build pool alone
\* --end values up to this one are tried.
MaxEnd == 4
\* The arguments tried: --start, --end and --concurrency absent, bare, not a
\* number, below, inside and above the ranges the script clamps them to; and
\* the highest frame number found under ./frames (0: none).
StartArgs == {Absent, Flag, Text, Numeral(-1), Numeral(0), Numeral(2)}
EndArgs == {Absent, Text} \cup {Numeral(n) : n \in 0 .. MaxEnd}
ConcurrencyArgs ==
    {Absent, Flag, Text} \cup
    {Numeral(n) : n \in {-1, 0, 1, 2, 3, 32, 33, 40}}
BuildArgs ==
    [start : StartArgs, end : EndArgs, concurrency : ConcurrencyArgs,
     framesMax : {0, 2}]

InitBuild ==
    /\ InitHost /\ ~hasAudio /\ unmountless = {}
    /\ ClockIdle
    /\ ServerIdle
    /\ build \in {Parsed(args) : args \in BuildArgs}

NextBuild ==
    \/ StartWorkers
    \/ \E w \in 1 .. MaxEnd, code \in {0, 1} : Close(w, code)
    \/ Finish

SpecBuild == InitBuild /\ [][NextBuild]_vars

\* ================================================================ claims
HasOp(tr, op) == \E i \in 1 .. Len(tr) : tr[i].op = op
Has(tr, op, idx) == \E i \in 1 .. Len(tr) : tr[i] = Ev(op, idx)
Threw(tr) == HasOp(tr, "unmountThrew") \/ HasOp(tr, "mountThrew")
Settles(tr, op) == Len(tr) > 0 /\ tr[1].op = op

\* C1: at most one load is in flight.  No more than one loadRemoteModule call
\* is outstanding in any state, and a step taken while loadingRef is true (a
\* tick, step() or scrub() during a slow load) calls neither ensureRemote nor
\* loadRemoteModule.
C1_OneLoadInFlight ==
    /\ [](Len(inflight) <= 1)
    /\ [][loadingRef =>
            /\ ~HasOp(trace', "ensureRemote")
            /\ ~HasOp(trace', "ensureRemoteThrew")
            /\ ~HasOp(trace', "loadRemoteModule")]_vars

\* A tick computed a new target while the load of another frame was in
\* flight, and dispatched nothing.
C1_Witness ==
    /\ Len(inflight) = 1
    /\ loadingRef
    /\ trace = <<Ev("clock", frameIndexRef)>>
    /\ frameIndexRef # inflight[1]

\* C2: mount/unmount ordering.  In the step that mounts a resolved module,
\* every module that is mounted before the step and defines unmount is
\* unmounted earlier in that step than the new module is mounted, and the
\* stage then shows the new module.
C2_UnmountBeforeMount ==
    [][\A i \in 1 .. Len(trace') :
          trace'[i].op = "mount" =>
            /\ \A m \in styleEl \ unmountless :
                  \E j \in 1 .. (i - 1) : trace'[j] = Ev("unmount", m)
            /\ stage' = trace'[i].idx
            /\ trace'[i].idx \in styleEl']_vars

\* A load of one frame replaced the mounted module of another frame.
C2_Witness ==
    \E a, b \in Frames :
       /\ a # b
       /\ trace = <<Ev("resolved", b), Ev("unmount", a), Ev("mount", b)>>
       /\ stage = b

\* C3: a failed load does not unmount.  In the step in which a load fails
\* (ensureRemote throws, or loadRemoteModule rejects) nothing is unmounted, the
\* stage and currentModuleRef are as before, and the error state is the
\* message of that failure.
C3_FailedLoadKeepsStage ==
    [][(HasOp(trace', "rejected") \/ HasOp(trace', "ensureRemoteThrew")) =>
          /\ ~HasOp(trace', "unmount")
          /\ stage' = stage
          /\ styleEl' = styleEl
          /\ currentModuleRef' = currentModuleRef
          /\ error' = (IF HasOp(trace', "rejected") THEN "load failed"
                                                    ELSE "register failed")]_vars

\* Frame a is mounted and the load of frame b has just been rejected.
C3_Witness ==
    \E a, b \in Frames :
       /\ a # b
       /\ trace = <<Ev("rejected", b)>>
       /\ currentModuleRef = a
       /\ stage = a
       /\ a \in styleEl
       /\ error = "load failed"

\* C4 (as claimed): a tick that evaluates the clock while no load is in flight
\* dispatches a load of the desired index whenever that index differs from the
\* index of the last dispatched load.
C4_TickDispatchesDesired ==
    [][\A d \in Frames :
          (Has(trace', "clock", d) /\ ~loadingRef /\ d # lastDispatched) =>
              (Has(trace', "loadRemoteModule", d)
                 \/ Has(trace', "ensureRemoteThrew", d))]_vars

\* C5 (as claimed): once pause() has run, and until the next play(), no tick
\* evaluates the clock (a tick dispatches a load only after doing so).
C5_NoTickAfterPause ==
    [][~playing => ~HasOp(trace', "clock")]_vars

\* C6: loading is cleared in all outcomes.  The step in which a load settles
\* leaves loadingRef and loading false, whether the module was mounted, the
\* load was rejected, or unmount or mount threw; loadingRef is never true
\* without a load that is still to settle; and a step() or scrub() that moves
\* the target while loadingRef is false has its dispatch accepted.
C6_LoadingCleared ==
    /\ [](loadingRef => Len(inflight) > 0)
    /\ [][/\ (HasOp(trace', "resolved") \/ HasOp(trace', "rejected")
               \/ HasOp(trace', "ensureRemoteThrew"))
             => (~loadingRef' /\ ~loading')
          /\ (~loadingRef /\ HasOp(trace', "pause")
                /\ frameIndexRef' # frameIndexRef)
             => (Has(trace', "loadRemoteModule", frameIndexRef')
                   \/ Has(trace', "ensureRemoteThrew", frameIndexRef'))]_vars

\* mount threw while loading a frame, and loading is false again.
C6_Witness ==
    /\ HasOp(trace, "mountThrew")
    /\ ~loadingRef
    /\ ~loading

\* C7: loadingRef and loading are true in every state in which a
\* loadRemoteModule call made by renderFrame has not settled.
C7_LoadingWhileInFlight ==
    Len(inflight) > 0 => (loadingRef /\ loading)

\* A second frame is being loaded while the first is on the stage.
C7_Witness ==
    /\ Len(inflight) = 1
    /\ currentModuleRef # NoModule
    /\ inflight[1] # currentModuleRef
    /\ loadingRef

\* C8 (as claimed): currentModuleRef, when not null, is the module that is
\* mounted: its html is on the stage and its style element is in the document.
C8_CurrentModuleIsMounted ==
    currentModuleRef # NoModule =>
        (stage = currentModuleRef /\ currentModuleRef \in styleEl)

\* C9: when every module defines unmount, at most one module is mounted, and
\* it is the one whose html is on the stage.
C9_NeverDoubleMounted ==
    unmountless = {} =>
        /\ Cardinality(styleEl) <= 1
        /\ (stage # NoModule => styleEl = {stage})

\* The mounted frame was loaded again: unmounted, then mounted.
C9_Witness ==
    \E a \in Frames :
       /\ unmountless = {}
       /\ trace = <<Ev("resolved", a), Ev("unmount", a), Ev("mount", a)>>
       /\ styleEl = {a}

\* C10: an in-flight load is not cancelled.  pause() (alone, or at the start
\* of step() and scrub()) leaves a load that is in flight as it is, and a load
\* that resolves mounts its module, also when the scheduler is not playing,
\* unless unmount or mount throws.
C10_NoCancellation ==
    [][/\ (HasOp(trace', "pause") /\ Len(inflight) > 0) =>
             (inflight' = inflight /\ loadingRef' = loadingRef)
       /\ \A i \in Frames :
             (Settles(trace', "resolved") /\ trace'[1].idx = i /\ ~Threw(trace')) =>
                 /\ Has(trace', "mount", i)
                 /\ stage' = i
                 /\ currentModuleRef' = i
                 /\ (currentModuleRef # NoModule /\ currentModuleRef \notin unmountless
                       => Has(trace', "unmount", currentModuleRef))]_vars

\* The scheduler is paused, the target moved on while the load was in flight,
\* and the load has mounted its own frame.
C10_Witness ==
    \E i \in Frames :
       /\ ~playing
       /\ Settles(trace, "resolved")
       /\ Has(trace, "mount", i)
       /\ stage = i
       /\ frameIndexRef # i

\* The messages renderFrame's catch block leaves in the error state.
LoadErrors == {"load failed", "register failed", "unmount threw", "mount threw"}

\* A tick whose closure saw playing = true is requested or about to run.
LiveTickScheduled ==
    \/ \E i \in 1 .. Len(pending) : pending[i].live
    \/ \E i \in 1 .. Len(frameQueue) : frameQueue[i]

\* C11: a failed load never halts the scheduling loop.  While the committed
\* state is playing a tick is scheduled, whatever the error state; the step in
\* which a load fails leaves playing and the scheduled ticks as they are and
\* clears loadingRef; and a tick that evaluates the clock after a failed load
\* (the error message of the failure is still set) and finds a desired index
\* other than the target dispatches a load of that index.
C11_FailedLoadKeepsTicking ==
    /\ []((playing /\ renderedPlaying) => LiveTickScheduled)
    /\ [](error \in LoadErrors => ~loadingRef)
    /\ [][/\ (HasOp(trace', "rejected") \/ Threw(trace'))
             => /\ playing' = playing
                /\ pending' = pending
                /\ ~loadingRef'
          /\ \A d \in Frames :
                (Has(trace', "clock", d) /\ error \in LoadErrors
                   /\ d # frameIndexRef)
                => (Has(trace', "loadRemoteModule", d)
                      \/ Has(trace', "ensureRemoteThrew", d))]_vars

\* The scheduler is playing, every load so far has failed (no module was ever
\* mounted), and a tick has dispatched the load of the frame it desired.
C11_Witness ==
    \E d \in Frames :
       /\ playing
       /\ currentModuleRef = NoModule
       /\ d # 0
       /\ trace = <<Ev("clock", d), Ev("ensureRemote", d),
                    Ev("loadRemoteModule", d)>>

\* C12 (as claimed): step() and scrub() leave the scheduler not playing with
\* the target inside the frame range, dispatch the load of the target when no
\* load is in flight, and leave no tick scheduled that would poll the clock.
C12_StepDoesNotPoll ==
    [][(StepFrame \/ \E value \in ScrubValues : OnScrub(value)) =>
          /\ ~playing'
          /\ frameIndexRef' \in Frames
          /\ ~loadingRef =>
                (Has(trace', "loadRemoteModule", frameIndexRef')
                   \/ Has(trace', "ensureRemoteThrew", frameIndexRef'))
          /\ \A i \in 1 .. Len(pending') : ~pending'[i].live]_vars

\* ------------------------------------------------- resolver and registry
Count(op) ==
    Cardinality({i \in 1 .. Len(runtimeCalls) : runtimeCalls[i].op = op})
SharedDependencyNotReady(msg) ==
    includes(msg, "RUNTIME-006") \/ includes(msg, "Invalid loadShareSync")
StaleManifest(msg) ==
    includes(msg, "RUNTIME-008") \/ includes(msg, "expected expression, got '<'")
\* The first loadRemote call has just thrown the error whose message is msg.
FirstThrew(msg) ==
    /\ resolvePc = "first"
    /\ resolvePc' # "first"
    /\ ~lastAttempt'.ok
    /\ lastAttempt'.msg = msg

\* C13: single retry.  One loadRemoteModule call calls loadRemote at most
\* twice and makes at most one recovery call (loadShare or registerRemotes);
\* once the retry is awaited no further call is made, and the retry's failure,
\* of any class, is the failure of the call; a first failure whose message has
\* none of the recognised markers is rethrown as it is, with no further call.
C13_SingleRetry ==
    /\ [](/\ Count("loadRemote") <= 2
          /\ Count("loadShare") + Count("registerRemotes") <= 1)
    /\ [][/\ resolvePc = "retry" =>
                /\ resolvePc' \in {"retry", "done"}
                /\ runtimeCalls' = runtimeCalls
          /\ (resolvePc = "retry" /\ resolvePc' = "done" /\ ~lastAttempt'.ok) =>
                resolveResult' = Rejected(lastAttempt'.msg)
          /\ \A msg \in Messages :
                (FirstThrew(msg) /\ ~SharedDependencyNotReady(msg)
                   /\ ~StaleManifest(msg)) =>
                      /\ resolvePc' = "done"
                      /\ resolveResult' = Rejected(msg)
                      /\ runtimeCalls' = runtimeCalls]_vars

\* The retry failed with a stale-manifest error again, and that error is the
\* outcome of the call: two loadRemote calls, no third.
C13_Witness ==
    /\ resolvePc = "done"
    /\ Count("loadRemote") = 2
    /\ lastAttempt.n = 2
    /\ resolveResult.kind = "rejected"
    /\ StaleManifest(resolveResult.msg)

\* C14: shared-dependency recovery.  When the first attempt throws a
\* shared-dependency-not-ready error that names the package, the call calls
\* loadShare for that package and waits; the retry is called in the step in
\* which loadShare is fulfilled and not before, exactly once; and the outcome
\* of the retry (its module, its error, or the null error) is the outcome of
\* the call.
C14_SharedDependencyRecovery ==
    /\ [](resolvePc = "share" => Count("loadRemote") = 1)
    /\ [][/\ \A msg \in Messages :
                (FirstThrew(msg) /\ SharedDependencyNotReady(msg)
                   /\ parseSharedPkgName(msg) # "") =>
                      /\ resolvePc' = "share"
                      /\ resolveResult' = Pending
                      /\ runtimeCalls' = Append(runtimeCalls,
                            LoadShareCall(parseSharedPkgName(msg)))
          /\ (resolvePc = "share" /\ resolvePc' # "share") =>
                \/ /\ resolvePc' = "retry"
                   /\ runtimeCalls' = runtimeCalls \o
                         <<LoadShareDone(TRUE), LoadRemoteCall>>
                \/ /\ resolvePc' = "done"
                   /\ resolveResult' = Rejected(ShareError)
                   /\ runtimeCalls' = Append(runtimeCalls, LoadShareDone(FALSE))
          /\ (resolvePc = "retry" /\ resolvePc' = "done"
                /\ Count("loadShare") = 1) =>
                /\ runtimeCalls' = runtimeCalls
                /\ resolveResult' =
                      (IF ~lastAttempt'.ok THEN Rejected(lastAttempt'.msg)
                       ELSE IF lastAttempt'.mod = NoModule
                            THEN Rejected(NullError)
                            ELSE Fulfilled(lastAttempt'.mod))]_vars

\* loadRemote, loadShare("react"), its fulfilment, one more loadRemote, and
\* the module of the retry is the result.
C14_Witness ==
    /\ resolvePc = "done"
    /\ runtimeCalls = <<LoadRemoteCall, LoadShareCall("react"),
                        LoadShareDone(TRUE), LoadRemoteCall>>
    /\ resolveResult = Fulfilled(exposedModule(resolveId))

\* C15: stale-manifest recovery.  When the first attempt throws a
\* stale-manifest error (one the shared-dependency recovery does not take)
\* and an entry is recorded for the remote name of the id, the call calls
\* registerRemotes with that name, the recorded entry and force: true, leaves
\* the record as it is, and then calls loadRemote once more, exactly once,
\* unless registerRemotes throws.
C15_StaleManifestRecovery ==
    /\ []((resolvePc = "retry" /\ Count("registerRemotes") = 1) =>
             (Len(runtimeCalls) = 3 /\ runtimeCalls[3] = LoadRemoteCall))
    /\ [][\A msg \in Messages :
             LET name  == remoteNameOf(resolveId)
                 entry == recordedEntry(name)
             IN  (FirstThrew(msg) /\ StaleManifest(msg)
                    /\ ~(SharedDependencyNotReady(msg)
                           /\ parseSharedPkgName(msg) # "")
                    /\ entry # NoEntry) =>
                       /\ registerCalls' = <<Registration(name, entry, TRUE)>>
                       /\ registeredEntryByName' = registeredEntryByName
                       /\ \/ /\ resolvePc' = "retry"
                             /\ resolveResult' = Pending
                             /\ runtimeCalls' = runtimeCalls \o
                                   <<RegisterRemotesCall(name, entry),
                                     LoadRemoteCall>>
                          \/ /\ resolvePc' = "done"
                             /\ resolveResult' = Rejected(RegisterError)
                             /\ runtimeCalls' = Append(runtimeCalls,
                                   RegisterRemotesCall(name, entry))]_vars

\* loadRemote, registerRemotes with the entry recorded for the name, one more
\* loadRemote, and the module of the retry is the result.
C15_Witness ==
    /\ resolvePc = "done"
    /\ Len(runtimeCalls) = 3
    /\ runtimeCalls[2] = RegisterRemotesCall(remoteNameOf(resolveId),
                            recordedEntry(remoteNameOf(resolveId)))
    /\ runtimeCalls[3] = LoadRemoteCall
    /\ resolveResult = Fulfilled(exposedModule(resolveId))

\* C16: container-not-found is fatal.  When the entry promise is fulfilled
\* and the global named by the scope is absent, the call is rejected with the
\* container-not-found error in that step: no script is created, the cache and
\* the globals are as before, and neither init nor get is called.
C16_ContainerNotFoundIsFatal ==
    [][(/\ loadPc = "entry"
        /\ scripts[loadScript].state = "loaded"
        /\ window[loadArgs.scope] = NoScript
        /\ <<loadPc, loadResult, loadContainer>>' #
              <<loadPc, loadResult, loadContainer>>) =>
           /\ loadPc' = "done"
           /\ loadResult' = Rejected(ContainerNotFound)
           /\ scripts' = scripts
           /\ containers' = containers
           /\ window' = window]_vars

\* The entry was loaded and bound its container, the scope was unloaded while
\* the call was waiting, and the call has been rejected.
C16_Witness ==
    /\ loadPc = "done"
    /\ loadResult = Rejected(ContainerNotFound)
    /\ scripts[loadScript].state = "loaded"
    /\ ~scripts[loadScript].inHead
    /\ containers[loadArgs.scope] = NoScript

\* C17 (as claimed): neither loadRemoteModule is ever fulfilled with a
\* missing (null or undefined) module.
C17_NeverResolvesMissing ==
    /\ resolveResult.kind = "fulfilled" => resolveResult.mod # NoModule
    /\ loadResult.kind = "fulfilled" => loadResult.mod # NoModule

\* C18: ensureRemote is idempotent.  A call whose entry is the one recorded
\* for the name makes no registerRemotes call, returns, and leaves the record
\* as it is; this holds for every such call, however many came before.
C18_EnsureIdempotent ==
    [][(called'.fn = "ensureRemote"
          /\ registeredEntryByName[called'.name] = called'.entry) =>
             /\ registerCalls' = <<>>
             /\ ~called'.threw
             /\ registeredEntryByName' = registeredEntryByName]_vars

\* An ensureRemote call for the entry already recorded has just returned.
C18_Witness ==
    /\ called.fn = "ensureRemote"
    /\ registerCalls = <<>>
    /\ registeredEntryByName[called.name] = called.entry

\* C19: one entry per name, the latest.  The record maps each name to one
\* entry; an ensureRemote call that returns leaves its entry recorded for its
\* name and the other names as they were, registering with force: true when
\* the entry differs from the recorded one; and nothing else changes the
\* record (not a call in which registerRemotes throws, not the resolver).
C19_LatestEntryPerName ==
    /\ [](\A n \in RemoteNames : registeredEntryByName[n] \in Entries \cup {NoEntry})
    /\ [][/\ (called'.fn = "ensureRemote" /\ ~called'.threw) =>
                /\ registeredEntryByName' =
                      [registeredEntryByName EXCEPT ![called'.name] = called'.entry]
                /\ registeredEntryByName[called'.name] # called'.entry =>
                      registerCalls' = <<Registration(called'.name,
                                                      called'.entry, TRUE)>>
          /\ (called'.fn # "ensureRemote" \/ called'.threw) =>
                registeredEntryByName' = registeredEntryByName]_vars

\* The stale-manifest recovery of the call being followed registered one
\* entry for a name, and an ensureRemote call with another entry for that name
\* has just replaced it.
C19_Witness ==
    /\ called.fn = "ensureRemote"
    /\ ~called.threw
    /\ registerCalls = <<Registration(called.name, called.entry, TRUE)>>
    /\ registeredEntryByName[called.name] = called.entry
    /\ \E i \in 1 .. Len(runtimeCalls) :
          /\ runtimeCalls[i].op = "registerRemotes"
          /\ runtimeCalls[i].name = called.name
          /\ runtimeCalls[i].entry # called.entry

\* C20 (as claimed): a load of a scope from an entry location goes through a
\* bootstrap of that location: the script whose promise the call awaits was
\* created for the url of the call, not for an earlier, different url.
C20_ChangedEntryBootstrapsAgain ==
    loadPc # "idle" => scripts[loadScript].src = loadArgs.url

\* ---------------------------------------------------- script-tag loader
\* A loadRemoteModule call of the script-tag loader starts for the scope.
LoadCallStarts(scope) ==
    \E url \in LoaderUrls :
       \/ LoadRemoteModuleByScript(url, scope)
       \/ LoadRemoteModuleMeanwhile(url, scope)

LoadCallSteps ==
    <<loadPc, loadResult, loadContainer, loadScript>>' #
       <<loadPc, loadResult, loadContainer, loadScript>>

\* C22: a bootstrap failure is reported and not retried by the loader.  When
\* the script whose promise a call awaits has failed, the call's next step
\* rejects it with the entry-load error naming the url that script was
\* injected with; that step and every later step of the call create no script
\* element and leave the cache as it is, and the call does not await again.
C22_BootstrapFailureNotRetried ==
    [][/\ (loadPc = "entry" /\ scripts[loadScript].state = "failed"
              /\ LoadCallSteps) =>
             /\ loadPc' = "done"
             /\ loadResult' = Rejected(EntryLoadError(scripts[loadScript].src))
             /\ loadScript' = loadScript
       /\ (loadPc \notin {"idle", "done"} /\ LoadCallSteps) =>
             /\ scripts' = scripts
             /\ containers' = containers
             /\ loadPc' # "entry"]_vars

\* The only script there is has failed, the call has been rejected with the
\* error naming its url, and the cache still holds that script's entry.
C22_Witness ==
    \E s \in Scopes :
       /\ loadPc = "done"
       /\ loadArgs.scope = s
       /\ loadResult = Rejected(EntryLoadError(loadArgs.url))
       /\ Len(scripts) = 1
       /\ scripts[1].state = "failed"
       /\ containers[s] = 1

\* C23 (as claimed): unloadRemoteContainer(scope) removes the script element
\* of the cached entry, leaves no global binding for the scope and no cache
\* entry, and the next load call for the scope injects a new script element
\* and awaits it.
C23_UnloadRepeatsBootstrap ==
    [][\A s \in Scopes :
          /\ (\E deleted \in BOOLEAN : UnloadRemoteContainer(s, deleted)) =>
                /\ ~scripts'[containers[s]].inHead
                /\ window'[s] = NoScript
                /\ containers'[s] = NoScript
          /\ (LoadCallStarts(s) /\ entryCalls[s] = {}) =>
                /\ Len(scripts') = Len(scripts) + 1
                /\ scripts'[Len(scripts')].inHead
                /\ containers'[s] = Len(scripts')
                /\ loadPc' # loadPc => loadScript' = Len(scripts')]_vars

\* C24 (as claimed): the init step of a loaded container is invoked at most
\* once as long as its remote is not unloaded, however many load calls are
\* made, and never while the host exposes no sharing initializer or no
\* default share scope.
C24_InitAtMostOnce ==
    /\ \A i \in 1 .. Len(scripts) : scripts[i].inHead => initCalls[i] <= 1
    /\ ~sharingReady => \A i \in 1 .. MaxScripts : initCalls[i] = 0


\* C25: whatever the frame count F > 0, the rate, the mode and the clock input
\* (a negative audio offset and a `now` before the origin timestamp included),
\* the index getDesiredFrameIndex gives is a whole number from 0 to F - 1, and
\* so is the target stepFrame and onScrub compute from it.
C25_IndexInRange ==
    clockOut.op # "idle" =>
        /\ clockOut.index \in 0 .. (clockIn.F - 1)
        /\ clockOut.before \in 0 .. (clockIn.F - 1)

\* `now` is before the origin timestamp and the index is that of the origin.
C25_Witness ==
    /\ clockOut.op = "tick"
    /\ ~clockIn.audio
    /\ clockIn.now < clockIn.perfStart
    /\ clockIn.F = 7
    /\ clockIn.perfStartFrame = 6
    /\ clockOut.index = 6


\* C26 (as claimed): one loop of the animation later (F/r seconds, at or
\* after the origin) the desired frame index is the same, in wall-clock mode
\* and in audio-driven mode.
C26_Wraparound ==
    (/\ clockOut.op = "period"
     /\ IF clockIn.audio
        THEN clockIn.currentTime - Period(clockIn) + clockIn.offset >= 0
        ELSE clockIn.now - Period(clockIn) >= clockIn.perfStart)
        => clockOut.index = clockOut.before

\* C27 (as claimed): in wall-clock mode, D >= 0 ms after the origin timestamp
\* the desired frame index is (k + floor(D * fps / 1000)) mod frameCount, k
\* being the origin frame index.
C27_WallClockFormula ==
    (/\ clockOut.op = "tick"
     /\ ~clockIn.audio
     /\ clockIn.now >= clockIn.perfStart)
        => clockOut.index =
              (clockIn.perfStartFrame
                 + ((clockIn.now - clockIn.perfStart) * clockIn.r) \div MsPerSec)
                % clockIn.F


FrameIndexSample == Frames \cup {8, 9, 98, 99, 998, 999, 5257, 9998}
FrameNaming ==
    [index \in FrameIndexSample |->
        [name |-> scopeOf(padFrame(index + 1)),
         entry |-> resolveRemoteUrl(padFrame(index + 1)),
         id |-> padFrame(index + 1)]]

\* C29: frame index i is given the remote name frame_<i+1 in four digits> and
\* an entry location that depends on i alone, different indexes get different
\* names and locations, and once the scheduler's ensureRemote has registered
\* the remote of a frame, every later load of that frame finds the same entry
\* recorded and registers nothing.
C29_RegisteredAtMostOnce ==
    /\ [](\A i, j \in FrameIndexSample :
            /\ Len(FrameNaming[i].id) = 4
            /\ Number(FrameNaming[i].id) = i + 1
            /\ i # j => /\ FrameNaming[i].name # FrameNaming[j].name
                        /\ FrameNaming[i].entry # FrameNaming[j].entry)
    /\ [](\A index \in Frames :
            registeredEntryByName[FrameNaming[index].name]
               \in {NoEntry, FrameNaming[index].entry})
    /\ [][\A index \in Frames :
            registeredEntryByName[FrameNaming[index].name] # NoEntry =>
               /\ registeredEntryByName'[FrameNaming[index].name]
                     = registeredEntryByName[FrameNaming[index].name]
               /\ ~Has(trace', "ensureRemoteThrew", index)]_vars

\* Frame 0 was loaded, then frame 1 was loaded and mounted, and frame 0 is
\* being loaded again with its registration as it was.
C29_Witness ==
    /\ inflight = <<0>>
    /\ Has(trace, "ensureRemote", 0)
    /\ currentModuleRef = 1
    /\ registeredEntryByName[scopeOf(padFrame(1))] = resolveRemoteUrl(padFrame(1))
    /\ registeredEntryByName[scopeOf(padFrame(2))] = resolveRemoteUrl(padFrame(2))


\* C30 (as claimed): the manifest the frame server returns for
\* /frame-XXXX/mf-manifest.json (or for /frame-XXXX) has its publicPath
\* pointing at the server's /frame-XXXX/ location, whatever publicPath the
\* built file holds.
C30_ManifestPublicPathRewritten ==
    (/\ request.state = "answered"
     /\ request.parts # <<>>
     /\ restOf(request.parts) = ManifestFile
     /\ response.status = 200)
        => response.body.publicPath = PublicPath(ServerBase, request.parts[1])


\* The scheduler when every load succeeds: no step in which registerRemotes
\* throws, a load is rejected, or an unmount or a mount throws.
LoadsSucceed ==
    /\ ~HasOp(trace', "ensureRemoteThrew")
    /\ ~HasOp(trace', "rejected")
    /\ ~Threw(trace')
NextLoadsSucceed ==
    \/ InitialRender /\ LoadsSucceed
    \/ Play /\ LoadsSucceed
    \/ PlayResume /\ LoadsSucceed
    \/ Pause /\ LoadsSucceed
    \/ PlayingEffect /\ LoadsSucceed
    \/ StepFrame /\ LoadsSucceed
    \/ \E value \in ScrubValues : OnScrub(value) /\ LoadsSucceed
    \/ \E d \in FrameDeltas : BeginFrame(d) /\ LoadsSucceed
    \/ RunCallback /\ LoadsSucceed
    \/ LoadSettle /\ LoadsSucceed
SpecLoadsSucceed == Init /\ [][NextLoadsSucceed]_vars

\* C31 (as claimed): once the component has mounted, whenever the scheduler is
\* not playing and no load is in flight (every load so far having succeeded),
\* the module on the stage is the module of the current target frame index.
C31_IdleShowsTarget ==
    (hasMountedRef /\ ~playing /\ inflight = <<>>) =>
        /\ currentModuleRef = frameIndexRef
        /\ stage = frameIndexRef


\* play() called through the closure of a render that saw playing = true:
\* `if (playing) return`.
PlayWhilePlaying ==
    /\ UNCHANGED remoteVars
    /\ Settled
    /\ renderedPlaying
    /\ trace' = <<Ev("play", frameIndexRef)>>
    /\ UNCHANGED <<reactVars, clockVars, audioVars, domVars, rafVars,
                   frameIndexRef, hasMountedRef>>
    /\ UNCHANGED loadVars

\* play() called a second time before the render that follows the first
\* call's setPlaying(true) has been committed: the closure of the call still
\* holds playing = false, and performance.now() may have moved on.
PlayBeforeCommit ==
    /\ UNCHANGED remoteVars
    /\ hasMountedRef
    /\ frameQueue = <<>>
    /\ playing
    /\ ~renderedPlaying
    /\ Len(pending) + playAwait < MaxCallbacks
    /\ \E later \in {now, now + 1} :
          /\ later <= MaxNow
          /\ now' = later
          /\ lastTickRef' = later
          /\ perfStartRef' = later
    /\ playing' = TRUE
    /\ perfStartFrameRef' = frameIndexRef
    /\ IF hasAudio
       THEN /\ \E allowed \in BOOLEAN : audioPaused' = ~allowed
            /\ playAwait' = playAwait + 1
            /\ UNCHANGED <<pending, rafSet>>
       ELSE /\ pending' = requestAnimationFrame(pending, renderedPlaying)
            /\ rafSet' = TRUE
            /\ UNCHANGED <<audioPaused, playAwait>>
    /\ trace' = <<Ev("play", frameIndexRef)>>
    /\ UNCHANGED <<renderedPlaying, frameIndex, frameIndexRef, hasAudio,
                   audioPos, hasMountedRef, frameQueue>>
    /\ UNCHANGED <<loadVars, domVars>>

\* The scheduler without an audio track, every load succeeding, with play()
\* callable at any time, as the presentation shell may call it.
NextPlayTwice ==
    \/ InitialRender /\ LoadsSucceed
    \/ Play /\ LoadsSucceed
    \/ Pause /\ LoadsSucceed
    \/ PlayingEffect /\ LoadsSucceed
    \/ StepFrame /\ LoadsSucceed
    \/ \E value \in ScrubValues : OnScrub(value) /\ LoadsSucceed
    \/ \E d \in FrameDeltas : BeginFrame(d) /\ LoadsSucceed
    \/ RunCallback /\ LoadsSucceed
    \/ LoadSettle /\ LoadsSucceed
    \/ PlayWhilePlaying
    \/ PlayBeforeCommit
InitPlayTwice == Init /\ ~hasAudio /\ unmountless = {}
SpecPlayTwice == InitPlayTwice /\ [][NextPlayTwice]_vars

\* The callbacks awaiting the next animation frame whose tick polls the clock.
LiveTicks(q) == Cardinality({i \in 1 .. Len(q) : q[i].live})

\* C32 (as claimed): a play() call made while the scheduler is already
\* playing (the first call's state update committed or not, no pause between
\* the two calls) leaves the origin timestamp and the origin frame index as
\* the first call recorded them and starts no further polling loop.
C32_PlayWhilePlayingChangesNothing ==
    [][(playing /\ HasOp(trace', "play")) =>
          /\ perfStartRef' = perfStartRef
          /\ perfStartFrameRef' = perfStartFrameRef
          /\ LiveTicks(pending') = LiveTicks(pending)]_vars


\* The script cached for the scope has failed: script.onerror has rejected
\* the promise the cache holds.
FailedEntryCached(scope) ==
    /\ containers[scope] # NoScript
    /\ scripts[containers[scope]].state = "failed"

\* C33: a failed bootstrap stays cached.  Every loadRemoteEntry call made for
\* a scope since its last unload whose script has failed has the script the
\* cache still holds; while the cache holds a failed script for a scope, no
\* step injects a script or changes the entry other than by removing it
\* (unload), a load call for the scope awaits the failed script's promise,
\* and the call awaiting it is rejected with the failure of that script (the
\* url the script was injected with).
C33_FailedEntryStaysCached ==
    /\ [](\A scope \in Scopes : \A c \in entryCalls[scope] :
             scripts[c.promise].state = "failed" =>
                 containers[scope] = c.promise)
    /\ [][\A scope \in Scopes : FailedEntryCached(scope) =>
             /\ containers'[scope] # NoScript =>
                   /\ Len(scripts') = Len(scripts)
                   /\ containers'[scope] = containers[scope]
             /\ (loadPc # "entry" /\ loadPc' = "entry"
                   /\ loadArgs'.scope = scope) =>
                   loadScript' = containers[scope]
             /\ (loadPc = "entry" /\ loadPc' # "entry"
                   /\ loadScript = containers[scope]) =>
                   /\ loadPc' = "done"
                   /\ loadResult' = Rejected(EntryLoadError(
                                        scripts[containers[scope]].src))]_vars

\* A load for the scope was rejected because its script failed; a later load,
\* given another url, injected nothing and has been rejected with the failure
\* of the first script.
C33_Witness ==
    \E scope \in Scopes :
       /\ FailedEntryCached(scope)
       /\ Len(scripts) = 1
       /\ loadPc = "done"
       /\ loadArgs.scope = scope
       /\ loadArgs.url # scripts[containers[scope]].src
       /\ loadResult = Rejected(EntryLoadError(scripts[containers[scope]].src))
       /\ \E c \in entryCalls[scope] : ~c.created /\ c.url = loadArgs.url


\* The registerRemotes call of the step threw: in ensureRemote, or in the
\* stale-manifest recovery of loadRemoteModule.
RegisterThrew ==
    \/ called'.fn = "ensureRemote" /\ called'.threw
    \/ called'.fn = "" /\ registerCalls' # <<>>
         /\ resolveResult' = Rejected(RegisterError)

\* C34: the map of registered entries mirrors the runtime registry.  Every
\* registerRemotes call that returns (from ensureRemote, or from the forced
\* re-registration of the stale-manifest recovery) is given one remote, with
\* force: true, and leaves the entry it was given recorded for that name; and
\* the entry recorded for a name changes only in a step whose registerRemotes
\* call is given that name and the new entry.
C34_MapMirrorsRegistry ==
    [][/\ ~RegisterThrew =>
             \A i \in 1 .. Len(registerCalls') :
                /\ registerCalls'[i].force
                /\ registeredEntryByName'[registerCalls'[i].name]
                      = registerCalls'[i].entry
       /\ \A n \in RemoteNames :
             registeredEntryByName'[n] # registeredEntryByName[n] =>
                 registerCalls'
                    = <<Registration(n, registeredEntryByName'[n], TRUE)>>]_vars

\* ensureRemote replaced the entry recorded for a name, and the stale-manifest
\* recovery of a later resolve has just registered the recorded entry again
\* before its retry.
C34_Witness ==
    \E n \in RemoteNames :
       /\ called.fn = ""
       /\ resolvePc = "retry"
       /\ registerCalls = <<Registration(n, registeredEntryByName[n], TRUE)>>
       /\ registeredEntryByName[n] # resolveRemoteUrl(padFrame(1))
       /\ n = scopeOf(padFrame(1))


\* The builds running: the workers awaiting runOne.
Running(b) ==
    Cardinality({w \in 1 .. Len(b.workers) : b.workers[w].state = "awaiting"})

\* C35: the frame build pool.  For every --start, --end and --concurrency the
\* concurrency value is within 1..32 (the value given when it is in that
\* range, 8 when none or no number is given); the ids built are those of the
\* range, each started at most once, and none is both started and still
\* listed; and the number of builds running never exceeds the concurrency.
C35_BuildPool ==
    /\ build.concurrency \in 1 .. 32
    /\ (build.args.concurrency.kind = "number"
          /\ build.args.concurrency.n \in 1 .. 32)
         => build.concurrency = build.args.concurrency.n
    /\ build.args.concurrency.kind \in {"absent", "text"}
         => build.concurrency = 8
    /\ \A i, j \in 1 .. Len(build.started) :
          i # j => build.started[i] # build.started[j]
    /\ \A i \in 1 .. Len(build.started) :
          /\ \E n \in startIndex(build.args) .. endIndex(build.args) :
                build.started[i] = pad4(n)
          /\ \A k \in 1 .. Len(build.ids) : build.ids[k] # build.started[i]
    /\ Running(build) <= build.concurrency
    /\ Len(build.workers) <= build.concurrency

\* --concurrency=2 and four frame ids: two builds are running, a third id was
\* handed out when an earlier build closed, and one id is still listed.
C35_Witness ==
    /\ build.phase = "running"
    /\ build.args.concurrency = Numeral(2)
    /\ Running(build) = 2
    /\ Len(build.started) = 3
    /\ Len(build.ids) = 1
    /\ build.done = 1

====
